---- MODULE Spec2Model ----
(***************************************************************************)
(* Model of the task-execution and API-resilience core of the QA           *)
(* automation tool:                                                        *)
(*   - QAExecutionEngine (app/qa_framework/base/execution_engine.py) with  *)
(*     QAExecution (app/qa_framework/base/data_models.py) and the QATask   *)
(*     hooks (app/qa_framework/base/qa_task.py);                           *)
(*   - ProductionCanvasRateLimiter (app/core/rate_limiter.py).             *)
(*                                                                         *)
(* The engine runs on one asyncio event loop.  A coroutine runs without    *)
(* interruption between two awaits that really suspend, so every engine    *)
(* action below is one such segment.  Task.cancel() marks the task; the    *)
(* CancelledError (a BaseException, not caught by "except Exception") is   *)
(* thrown into the coroutine when it is next resumed; a task cancelled     *)
(* before its first step never enters the coroutine body at all.           *)
(***************************************************************************)
EXTENDS Integers, Sequences, FiniteSets, TLC

\* ------------------------------------------------------------------------
\* Engine: universe
\* ------------------------------------------------------------------------
TaskIds == {"t1", "t2"}

TaskTypes == {"find_replace", "link_validation"}

\* the only task registered by the repository (@register_qa_task)
RegisteredTypes == {"find_replace"}

TaskStatus == {"pending", "running", "completed", "failed", "cancelled"}

Terminal == {"completed", "failed", "cancelled"}

\* status values a task puts on the QAResult it returns: create_base_result
\* gives RUNNING, a task may set a final one
ResultStatuses == {"running", "completed", "failed"}

\* points where _execute_task_background is suspended in an await
Suspended == {"init_notify", "validate_notify", "pre_execute", "execute",
              "execute_done", "post_execute", "complete_notify",
              "error_notify", "on_error"}

VARIABLES
    executions,          \* the QAExecution objects: id -> [status, error, result_status, progress]
    config,              \* id -> [task_type]
    active_executions,   \* keys of QAExecutionEngine._active_executions
    execution_tasks,     \* keys of QAExecutionEngine._execution_tasks
    progress_callbacks,  \* keys of QAExecutionEngine._progress_callbacks
    cancellation_tokens, \* QAExecutionEngine._cancellation_tokens
    bg,                  \* the asyncio task of _execute_task_background: id -> [pc, must_cancel, task_state, outcome, ret_status]
    hist,                \* history: id -> what was invoked / requested so far
    lastCancel           \* history: the last cancel_execution call and its return value

engineVars == <<executions, config, active_executions, execution_tasks,
                progress_callbacks, cancellation_tokens, bg, hist, lastCancel>>

\* the Canvas rate limiter (core/rate_limiter.py)
VARIABLES
    now,        \* what time.time() returns
    store,      \* the Redis sorted sets: key -> set of members <<score, task name, n>>
    call,       \* the check_rate_limit call each caller is in
    result,     \* the RateLimitStatus the step just taken returned (with what the call saw), if it returned one
    admittedAt, \* history: principal -> time -> number of calls admitted (not by failing open)
    callsMade   \* history: number of calls each caller has begun

limiterVars == <<now, store, call, result, admittedAt, callsMade>>

\* the other entry points of the limiter (core/rate_limiter.py)
VARIABLES
    waiter,     \* the wait_for_availability call: where it is, its locals, the sleeps it made
    lastReset   \* the last reset_user_limits call: its user, its return value, the usage counts before and after

waiterVars == <<waiter, lastReset>>

\* the progress fan-out (qa_framework/utils/progress_tracker.py)
VARIABLES
    task_subscribers,      \* ProgressBroadcaster._task_subscribers: task -> set of callbacks
    websocket_connections, \* ProgressBroadcaster._websocket_connections
    progress_history,      \* ProgressBroadcaster._progress_history: task -> list of updates
    progress_updates,      \* QAExecution.progress_updates of each task
    bp,                    \* the broadcast_progress call of each task's producer
    received,              \* history: callback -> task -> the updates it was called with, in order
    broadcastDone          \* the broadcast_progress call that ended in the step just taken, if one did

broadcasterVars == <<task_subscribers, websocket_connections, progress_history,
                     progress_updates, bp, received, broadcastDone>>

\* the subscriptions of the websocket manager (api/routes/websockets.py)
VARIABLES
    task_subscriptions,    \* QAWebSocketManager.task_subscriptions: task -> set of connection ids
    lastIndexOp            \* history: the last subscribe/unsubscribe call and what it did

managerVars == <<task_subscriptions, lastIndexOp>>

\* the connections of the websocket manager and its fan-out (api/routes/websockets.py)
VARIABLES
    active_connections,   \* keys of QAWebSocketManager.active_connections
    connection_metadata,  \* QAWebSocketManager.connection_metadata: connection id -> user_id
    user_subscriptions,   \* QAWebSocketManager.user_subscriptions: user -> set of connection ids
    endpoints,            \* the connection ids whose websocket_qa_progress handler is between connect and its finally clause
    wsb,                  \* the broadcast_progress_update call: its update, where it is, the connections still to visit
    delivered             \* history: connection id -> update -> number of times it was sent to the connection

wsVars == <<active_connections, connection_metadata, user_subscriptions, endpoints, wsb, delivered>>

\* the Canvas error handler (core/canvas_error_handler.py)
VARIABLES
    errInput,      \* the response or exception handed to classify_error
    canvasError,   \* the CanvasError classify_error returned for it
    prevDelay,     \* the calculate_retry_delay call before the last one
    lastDelay,     \* the last calculate_retry_delay call: its arguments and the delay returned
    retryDecision  \* the last should_retry call: its attempt and the value returned

handlerVars == <<errInput, canvasError, prevDelay, lastDelay, retryDecision>>

\* the task registry (qa_framework/base/task_registry.py)
VARIABLES
    tasks,          \* QATaskRegistry._tasks: name -> task class
    task_info,      \* QATaskRegistry._task_info: name -> the TaskInfo of the class
    task_metadata,  \* QATaskRegistry._task_metadata: name -> [version, class_name]
    lastRegister    \* the last register_task call: its arguments and the value returned

registryVars == <<tasks, task_info, task_metadata, lastRegister>>

\* the Canvas service (services/canvas_service.py)
VARIABLES
    req            \* the _make_request call: its arguments, where it is, its locals, and what it did so far

serviceVars == <<req>>

\* the engine's in-process RateLimiter (qa_framework/base/execution_engine.py)
VARIABLES
    minute_calls,  \* RateLimiter.minute_calls: the times of the recorded calls
    hour_calls,    \* RateLimiter.hour_calls
    engine_now,    \* what time.time() returns to the RateLimiter
    lastAcquire    \* the last acquire call: the value returned and the lists before it

rateVars == <<minute_calls, hour_calls, engine_now, lastAcquire>>

nonEngineVars == <<limiterVars, broadcasterVars, managerVars, handlerVars, registryVars, waiterVars, wsVars, serviceVars, rateVars>>

nonLimiterVars == <<engineVars, broadcasterVars, managerVars, handlerVars, registryVars, waiterVars, wsVars, serviceVars, rateVars>>

nonBroadcasterVars == <<engineVars, limiterVars, managerVars, handlerVars, registryVars, waiterVars, wsVars, serviceVars, rateVars>>

nonManagerVars == <<engineVars, limiterVars, broadcasterVars, handlerVars, registryVars, waiterVars, wsVars, serviceVars, rateVars>>

nonHandlerVars == <<engineVars, limiterVars, broadcasterVars, managerVars, registryVars, waiterVars, wsVars, serviceVars, rateVars>>

nonRegistryVars == <<engineVars, limiterVars, broadcasterVars, managerVars, handlerVars, waiterVars, wsVars, serviceVars, rateVars>>

nonRateVars == <<engineVars, limiterVars, waiterVars, broadcasterVars, managerVars, wsVars, handlerVars, registryVars, serviceVars>>

nonServiceVars == <<engineVars, limiterVars, waiterVars, broadcasterVars, managerVars, wsVars, handlerVars, registryVars, rateVars>>

\* outside the websocket manager and its fan-out
nonWsVars == <<engineVars, limiterVars, waiterVars, broadcasterVars, handlerVars, registryVars, serviceVars, rateVars>>

\* outside the limiter and its waiting caller
nonWaiterVars == <<engineVars, broadcasterVars, managerVars, handlerVars, registryVars, wsVars, serviceVars, rateVars>>

\* outside both the broadcaster and the websocket manager
nonHubVars == <<engineVars, limiterVars, handlerVars, registryVars, waiterVars, wsVars, serviceVars, rateVars>>

\* ------------------------------------------------------------------------
\* QAExecution (data_models.py)
\* ------------------------------------------------------------------------
NoExecution == [status |-> "none", error |-> "none", result_status |-> "none",
                progress |-> <<>>]

NoTask == [pc |-> "none", must_cancel |-> FALSE, task_state |-> "none",
           outcome |-> "none", ret_status |-> "none"]

NoHist == [invoked |-> {}, cancelRequested |-> FALSE, cancelledBeforeBody |-> FALSE,
           timedOut |-> FALSE, finalized |-> FALSE, cleanups |-> 0, trail |-> <<>>,
           preRejected |-> FALSE]

\* the state of one execution routine while a segment of it runs
Frame(id) == [ex |-> executions[id], b |-> bg[id], h |-> hist[id], cleaned |-> FALSE]

Percentage(current, total) == IF total > 0 THEN (current * 100) \div total ELSE 0

update_progress(f, stage, current, total) ==
    [f EXCEPT !.ex.progress = Append(@, <<stage, Percentage(current, total)>>)]

\* an assignment to execution.status; the history keeps the values the
\* status went through
set_status(f, s) ==
    [f EXCEPT !.ex.status = s,
              !.h.trail = IF f.ex.status = s THEN @ ELSE Append(@, s)]

start_execution(f) == set_status(f, "running")

\* self.status = result.status; self.result = result
complete_execution(f, rs) ==
    [set_status(f, rs) EXCEPT !.ex.result_status = rs,
                              !.ex.error = "none", !.h.finalized = TRUE]

\* self.status = FAILED; self.result = QAResult(status=FAILED, error_message=...)
fail_execution(f, kind) ==
    [set_status(f, "failed") EXCEPT !.ex.result_status = "failed", !.ex.error = kind]

\* ProgressTracker.update_status, as called by the default QATask.on_cancel
on_cancel(f) ==
    [set_status(f, "cancelled") EXCEPT !.h.invoked = @ \cup {"on_cancel"}]

\* ------------------------------------------------------------------------
\* QAExecutionEngine (execution_engine.py)
\* ------------------------------------------------------------------------
Registered(id) == config[id].task_type \in RegisteredTypes

\* _notify_progress awaits the callbacks only when some are registered
NotifySuspends(id) == id \in progress_callbacks

\* _cleanup_execution, run from the finally clause.  The task popped from
\* _execution_tasks is the running task itself, which is not done, so it is
\* cancelled by its own cleanup and ends in the cancelled state.
cleanup_execution(f) ==
    [f EXCEPT !.cleaned = TRUE, !.b.pc = "done", !.b.task_state = "cancelled",
              !.b.must_cancel = FALSE, !.h.cleanups = @ + 1]

\* the error hook part of _handle_task_error
error_hook(f, id) ==
    IF Registered(id)
    THEN [f EXCEPT !.h.invoked = @ \cup {"on_error"}, !.b.pc = "on_error"]
    ELSE cleanup_execution(f)

\* _handle_task_error: fail the execution, notify, call the error hook
handle_task_error(f, id, kind) ==
    LET f1 == update_progress(fail_execution(f, kind), "completed", 0, 100)
    IN IF NotifySuspends(id) THEN [f1 EXCEPT !.b.pc = "error_notify"]
       ELSE error_hook(f1, id)

\* (variant: the CancelledError is caught by "except Exception")
cancelled_error_AsException(f, id) == handle_task_error(f, id, "unexpected")

\* a CancelledError thrown into the routine passes both except clauses
\* (it is not an Exception) and reaches the finally clause
cancelled_error(f, id) == cleanup_execution(f)

\* (variant: the timeout ends the execution like a cancellation)
on_body_timeout_AsCancel(f, id) == cleanup_execution(on_cancel(f))

\* except asyncio.TimeoutError: raise QATaskTimeoutError(...)
on_body_timeout(f, id) == handle_task_error(f, id, "timeout")

\* from the validation result to the pre-execution hook
after_validating(f, id, valid) ==
    LET f1 == [f EXCEPT !.h.invoked = @ \cup {"validate_config"}]
    IN IF ~valid THEN handle_task_error(f1, id, "validation")
       ELSE IF id \in cancellation_tokens THEN cleanup_execution(on_cancel(f1))
       ELSE [f1 EXCEPT !.h.invoked = @ \cup {"pre_execute"}, !.b.pc = "pre_execute"]

\* from the registry lookup to the VALIDATING notification
after_lookup(f, id, valid) ==
    IF ~Registered(id) THEN handle_task_error(f, id, "not_found")
    ELSE LET f1 == update_progress(f, "validating", 10, 100)
         IN IF NotifySuspends(id) THEN [f1 EXCEPT !.b.pc = "validate_notify"]
            ELSE after_validating(f1, id, valid)

\* from the return of asyncio.wait_for to the post-execution hook
after_execute(f, id) ==
    CASE f.b.outcome = "timeout" -> on_body_timeout(f, id)
      [] f.b.outcome = "task_error" -> handle_task_error(f, id, "task_error")
      [] f.b.outcome = "exception" -> handle_task_error(f, id, "unexpected")
      [] OTHER ->
            IF id \in cancellation_tokens THEN cleanup_execution(on_cancel(f))
            ELSE [f EXCEPT !.h.invoked = @ \cup {"post_execute"}, !.b.pc = "post_execute"]

\* from the return of post_execute to the COMPLETED notification
after_post_execute(f, id, rs) ==
    LET f1 == update_progress(complete_execution(f, rs), "completed", 100, 100)
    IN IF NotifySuspends(id) THEN [f1 EXCEPT !.b.pc = "complete_notify"]
       ELSE cleanup_execution(f1)

\* (variant: the cleanup clears the cancellation tokens of every execution)
Commit_ClearsAllTokens(id, f) ==
    /\ executions' = [executions EXCEPT ![id] = f.ex]
    /\ bg' = [bg EXCEPT ![id] = f.b]
    /\ hist' = [hist EXCEPT ![id] = f.h]
    /\ active_executions' = IF f.cleaned THEN active_executions \ {id} ELSE active_executions
    /\ execution_tasks' = IF f.cleaned THEN execution_tasks \ {id} ELSE execution_tasks
    /\ progress_callbacks' = IF f.cleaned THEN progress_callbacks \ {id} ELSE progress_callbacks
    /\ cancellation_tokens' = IF f.cleaned THEN {} ELSE cancellation_tokens
    /\ UNCHANGED <<config, lastCancel, nonEngineVars>>

\* writes a finished segment back
Commit(id, f) ==
    /\ executions' = [executions EXCEPT ![id] = f.ex]
    /\ bg' = [bg EXCEPT ![id] = f.b]
    /\ hist' = [hist EXCEPT ![id] = f.h]
    /\ active_executions' = IF f.cleaned THEN active_executions \ {id} ELSE active_executions
    /\ execution_tasks' = IF f.cleaned THEN execution_tasks \ {id} ELSE execution_tasks
    /\ progress_callbacks' = IF f.cleaned THEN progress_callbacks \ {id} ELSE progress_callbacks
    /\ cancellation_tokens' = IF f.cleaned THEN cancellation_tokens \ {id} ELSE cancellation_tokens
    /\ UNCHANGED <<config, lastCancel, nonEngineVars>>

\* execute_task: no await inside, so it is one step
ExecuteTask(id, type, withCallback) ==
    /\ bg[id].pc = "none"
    /\ executions' = [executions EXCEPT ![id] = [NoExecution EXCEPT !.status = "pending"]]
    /\ config' = [config EXCEPT ![id] = [task_type |-> type]]
    /\ active_executions' = active_executions \cup {id}
    /\ progress_callbacks' = IF withCallback THEN progress_callbacks \cup {id}
                             ELSE progress_callbacks
    /\ execution_tasks' = execution_tasks \cup {id}
    /\ bg' = [bg EXCEPT ![id] = [NoTask EXCEPT !.pc = "unstarted", !.task_state = "pending"]]
    /\ hist' = [hist EXCEPT ![id] = [NoHist EXCEPT !.trail = <<"pending">>]]
    /\ UNCHANGED <<cancellation_tokens, lastCancel, nonEngineVars>>

\* first step of the background task
Start(id, valid) ==
    /\ bg[id].pc = "unstarted"
    /\ IF bg[id].must_cancel
       THEN \* cancelled before its first step: the coroutine body, and so
            \* its finally clause, never runs
            /\ bg' = [bg EXCEPT ![id].pc = "done", ![id].task_state = "cancelled",
                                ![id].must_cancel = FALSE]
            /\ UNCHANGED <<executions, config, active_executions, execution_tasks,
                           progress_callbacks, cancellation_tokens, hist, lastCancel, nonEngineVars>>
       ELSE LET f1 == update_progress(start_execution(Frame(id)), "initializing", 0, 100)
            IN Commit(id, IF NotifySuspends(id) THEN [f1 EXCEPT !.b.pc = "init_notify"]
                          ELSE after_lookup(f1, id, valid))

ResumeInitNotify(id, valid) ==
    /\ bg[id].pc = "init_notify" /\ ~bg[id].must_cancel
    /\ Commit(id, after_lookup(Frame(id), id, valid))

ResumeValidateNotify(id, valid) ==
    /\ bg[id].pc = "validate_notify" /\ ~bg[id].must_cancel
    /\ Commit(id, after_validating(Frame(id), id, valid))

\* pre_execute returns true or false, or raises
ResumePreExecute(id, r) ==
    /\ bg[id].pc = "pre_execute" /\ ~bg[id].must_cancel
    /\ Commit(id, CASE r = "false" ->
                            handle_task_error([Frame(id) EXCEPT !.h.preRejected = TRUE],
                                              id, "pre_execute_failed")
                    [] r = "raise" -> handle_task_error(Frame(id), id, "unexpected")
                    [] OTHER -> [Frame(id) EXCEPT !.h.invoked = @ \cup {"execute"},
                                                  !.b.pc = "execute"])

\* the main body (task.execute, run as the inner task of asyncio.wait_for)
\* returns a result or raises
BodyFinish(id, outcome, rs) ==
    /\ bg[id].pc = "execute"
    /\ bg' = [bg EXCEPT ![id].pc = "execute_done", ![id].outcome = outcome,
                        ![id].ret_status = IF outcome = "result" THEN rs ELSE "none"]
    /\ UNCHANGED <<executions, config, active_executions, execution_tasks,
                   progress_callbacks, cancellation_tokens, hist, lastCancel, nonEngineVars>>

\* timeout_seconds elapse while the body is still running
BodyTimeout(id) ==
    /\ bg[id].pc = "execute"
    /\ bg' = [bg EXCEPT ![id].pc = "execute_done", ![id].outcome = "timeout"]
    /\ hist' = [hist EXCEPT ![id].timedOut = TRUE]
    /\ UNCHANGED <<executions, config, active_executions, execution_tasks,
                   progress_callbacks, cancellation_tokens, lastCancel, nonEngineVars>>

ResumeExecute(id) ==
    /\ bg[id].pc = "execute_done" /\ ~bg[id].must_cancel
    /\ Commit(id, after_execute(Frame(id), id))

\* post_execute returns the (possibly adjusted) result, or raises
ResumePostExecute(id, r, rs) ==
    /\ bg[id].pc = "post_execute" /\ ~bg[id].must_cancel
    /\ Commit(id, IF r = "raise" THEN handle_task_error(Frame(id), id, "unexpected")
                  ELSE after_post_execute(Frame(id), id, rs))

ResumeCompleteNotify(id) ==
    /\ bg[id].pc = "complete_notify" /\ ~bg[id].must_cancel
    /\ Commit(id, cleanup_execution(Frame(id)))

ResumeErrorNotify(id) ==
    /\ bg[id].pc = "error_notify" /\ ~bg[id].must_cancel
    /\ Commit(id, error_hook(Frame(id), id))

\* on_error returns or raises; its exception is logged and dropped
ResumeOnError(id) ==
    /\ bg[id].pc = "on_error" /\ ~bg[id].must_cancel
    /\ Commit(id, cleanup_execution(Frame(id)))

\* the routine is resumed after Task.cancel(): CancelledError is thrown at
\* the await it is suspended in.  When the inner task of asyncio.wait_for is
\* already done, wait_for returns its outcome and drops the cancellation on
\* Python <= 3.11 and raises CancelledError on Python >= 3.12.
DeliverCancel(id, swallow) ==
    /\ bg[id].pc \in Suspended /\ bg[id].must_cancel
    /\ LET f == [Frame(id) EXCEPT !.b.must_cancel = FALSE]
       IN Commit(id, IF /\ swallow
                        /\ bg[id].pc = "execute_done"
                        /\ bg[id].outcome # "timeout"
                     THEN after_execute(f, id)
                     ELSE cancelled_error(f, id))

\* cancel_execution: no await inside, so it is one step
CancelExecution(id) ==
    IF id \notin active_executions
    THEN /\ lastCancel' = [id |-> id, ret |-> FALSE, pre |-> executions[id].status]
         /\ UNCHANGED <<executions, config, active_executions, execution_tasks,
                        progress_callbacks, cancellation_tokens, bg, hist,
                        nonEngineVars>>
    ELSE /\ cancellation_tokens' = cancellation_tokens \cup {id}
         /\ executions' = [executions EXCEPT ![id].status = "cancelled"]
         /\ bg' = [bg EXCEPT ![id].must_cancel =
                        IF id \in execution_tasks /\ bg[id].task_state = "pending"
                        THEN TRUE ELSE @]
         /\ hist' = [hist EXCEPT ![id].cancelRequested = TRUE,
                                 ![id].cancelledBeforeBody =
                                     @ \/ "execute" \notin hist[id].invoked,
                                 ![id].trail =
                                     IF executions[id].status = "cancelled" THEN @
                                     ELSE Append(@, "cancelled")]
         /\ lastCancel' = [id |-> id, ret |-> TRUE, pre |-> executions[id].status]
         /\ UNCHANGED <<config, active_executions, execution_tasks, progress_callbacks,
                        nonEngineVars>>

\* get_execution_status: the status, or None
get_execution_status(id) ==
    IF id \in active_executions THEN executions[id].status ELSE "None"

EngineInit ==
    /\ executions = [id \in TaskIds |-> NoExecution]
    /\ config = [id \in TaskIds |-> [task_type |-> "find_replace"]]
    /\ active_executions = {}
    /\ execution_tasks = {}
    /\ progress_callbacks = {}
    /\ cancellation_tokens = {}
    /\ bg = [id \in TaskIds |-> NoTask]
    /\ hist = [id \in TaskIds |-> NoHist]
    /\ lastCancel = [id |-> "none", ret |-> FALSE, pre |-> "none"]

EngineNext ==
    \E id \in TaskIds :
        \/ \E type \in TaskTypes, cb \in BOOLEAN : ExecuteTask(id, type, cb)
        \/ \E valid \in BOOLEAN : Start(id, valid)
        \/ \E valid \in BOOLEAN : ResumeInitNotify(id, valid)
        \/ \E valid \in BOOLEAN : ResumeValidateNotify(id, valid)
        \/ \E r \in {"true", "false", "raise"} : ResumePreExecute(id, r)
        \/ \E o \in {"result", "task_error", "exception"}, rs \in ResultStatuses :
               BodyFinish(id, o, rs)
        \/ BodyTimeout(id)
        \/ ResumeExecute(id)
        \/ \E r \in {"return", "raise"}, rs \in ResultStatuses : ResumePostExecute(id, r, rs)
        \/ ResumeCompleteNotify(id)
        \/ ResumeErrorNotify(id)
        \/ ResumeOnError(id)
        \/ \E swallow \in BOOLEAN : DeliverCancel(id, swallow)
        \/ CancelExecution(id)

\* a step of the background routine of one execution
RoutineStep(id) ==
    \/ \E valid \in BOOLEAN : Start(id, valid)
    \/ \E valid \in BOOLEAN : ResumeInitNotify(id, valid)
    \/ \E valid \in BOOLEAN : ResumeValidateNotify(id, valid)
    \/ \E r \in {"true", "false", "raise"} : ResumePreExecute(id, r)
    \/ \E o \in {"result", "task_error", "exception"}, rs \in ResultStatuses :
           BodyFinish(id, o, rs)
    \/ BodyTimeout(id)
    \/ ResumeExecute(id)
    \/ \E r \in {"return", "raise"}, rs \in ResultStatuses : ResumePostExecute(id, r, rs)
    \/ ResumeCompleteNotify(id)
    \/ ResumeErrorNotify(id)
    \/ ResumeOnError(id)
    \/ \E swallow \in BOOLEAN : DeliverCancel(id, swallow)

\* ProgressTracker.update_progress of the tracker handed to the main body:
\* the stage and the counts are whatever the task passes
TrackerStages == {"processing", "completed"}

TrackerCounts == {1, 2}

MaxTrackerUpdates == 2

\* the updates the engine itself appends before the main body starts
EngineUpdatesBeforeBody == {"initializing", "validating"}

TrackerUpdate(id, stage, current, total) ==
    /\ bg[id].pc = "execute"
    /\ Len(executions[id].progress) < Cardinality(EngineUpdatesBeforeBody) + MaxTrackerUpdates
    /\ executions' = [executions EXCEPT ![id] = update_progress(Frame(id), stage, current, total).ex]
    /\ hist' = [hist EXCEPT ![id].invoked = @ \cup {"tracker_update"}]
    /\ UNCHANGED <<config, active_executions, execution_tasks, progress_callbacks,
                   cancellation_tokens, bg, lastCancel, nonEngineVars>>

\* the execution whose main body reports progress
TrackedIds == {"t1"}

ProgressNext ==
    \/ \E id \in TrackedIds, type \in TaskTypes, cb \in BOOLEAN : ExecuteTask(id, type, cb)
    \/ \E id \in TrackedIds : RoutineStep(id)
    \/ \E id \in TrackedIds : CancelExecution(id)
    \/ \E id \in TrackedIds, stage \in TrackerStages, current \in TrackerCounts :
           TrackerUpdate(id, stage, current, 2)

\* on_error raises: "except Exception as hook_error" logs it, and the
\* finally clause runs
OnErrorRaises(id) ==
    /\ bg[id].pc = "on_error" /\ ~bg[id].must_cancel
    /\ Commit(id, cleanup_execution([Frame(id) EXCEPT !.h.invoked = @ \cup {"on_error_raised"}]))

ErrorNext ==
    \/ \E id \in TrackedIds, type \in TaskTypes, cb \in BOOLEAN : ExecuteTask(id, type, cb)
    \/ \E id \in TrackedIds : RoutineStep(id)
    \/ \E id \in TrackedIds : CancelExecution(id)
    \/ \E id \in TrackedIds : OnErrorRaises(id)

\* wait_for_completion(task_id, timeout) whose timeout elapses while the
\* task is not done: asyncio.wait_for cancels the task it was given and
\* raises TimeoutError, and the method returns None
WaitForCompletionTimeout(id) ==
    /\ id \in execution_tasks /\ bg[id].task_state = "pending"
    /\ bg' = [bg EXCEPT ![id].must_cancel = TRUE]
    /\ hist' = [hist EXCEPT ![id].invoked = @ \cup {"wait_timeout"}]
    /\ UNCHANGED <<executions, config, active_executions, execution_tasks,
                   progress_callbacks, cancellation_tokens, lastCancel, nonEngineVars>>

\* an execution, and a caller that waits for it with a timeout; nobody
\* cancels it
WaitNext ==
    \/ \E id \in TrackedIds, type \in TaskTypes, cb \in BOOLEAN : ExecuteTask(id, type, cb)
    \/ \E id \in TrackedIds : RoutineStep(id)
    \/ \E id \in TrackedIds : WaitForCompletionTimeout(id)

\* what the engine holds for one execution
Own(id) ==
    [execution |-> executions[id], task |-> bg[id],
     active |-> id \in active_executions, has_task |-> id \in execution_tasks,
     callbacks |-> id \in progress_callbacks, token |-> id \in cancellation_tokens]

\* ------------------------------------------------------------------------
\* ProductionCanvasRateLimiter (rate_limiter.py): universe
\* ------------------------------------------------------------------------
\* asyncio tasks that call check_rate_limit; the name of the task is part of
\* the member it records
Callers == {"c1", "c2", "c3"}

Principals == {"u1", "u2"}

\* the principal the concurrent callers act for
RacePrincipals == {"u1"}

\* 'default' is not in canvas_endpoints; 'quizzes' is, with weight 2
Endpoints == {"default", "quizzes"}

Weights == {1, 2}

\* RateLimitConfig, scaled down: requests_per_minute (180), requests_per_hour (4800)
RequestsPerMinute == 2

RequestsPerHour == 3

\* the window sizes (60 s and 3600 s) in clock ticks
MinuteWindow == 2

HourWindow == 3

\* the clock stops here
MaxTime == 2

\* so many calls are made at most by the sequential caller
MaxSequentialCalls == 5

\* "Scale for multiple users"
GlobalScale == 10

RetryAfterMinute == 60

RetryAfterHour == 3600

FailOpenRemaining == 10

\* Python's None where an int is expected
None == -1

GlobalMinuteLimit == RequestsPerMinute * GlobalScale

GlobalHourLimit == RequestsPerHour * GlobalScale

\* requests of principals outside Principals, recorded in the global sets
\* at time 0 before the first step
OtherTraffic(k) == {<<0, "other", i>> : i \in 1..k}

Keys == (Principals \cup {"global"}) \X {"minute", "hour"}

Window(w) == IF w = "minute" THEN MinuteWindow ELSE HourWindow

Min(a, b) == IF a <= b THEN a ELSE b

Max(a, b) == IF a >= b THEN a ELSE b

OrZero(x) == IF x = None THEN 0 ELSE x

\* ZREMRANGEBYSCORE key 0 max: drops the members with 0 <= score <= max
zremrangebyscore(set, max) == {m \in set : ~(0 <= m[1] /\ m[1] <= max)}

\* the members of a key younger than the window, counted without pruning
SlidingCount(key, t) == Cardinality({m \in store[key] : m[1] > t - Window(key[2])})

\* canvas_endpoints.get(endpoint, {'weight': weight})['weight']
ActualWeight(endpoint, weight) == IF endpoint = "quizzes" THEN 2 ELSE weight

MinuteAllowed(minute_count, weight, limit) == (minute_count + weight) <= limit

HourAllowed(hour_count, weight, limit) == (hour_count + weight) <= limit

\* (variant: the hour window is not consulted)
WindowsAllowed_MinuteOnly(minute_count, hour_count, weight, minute_limit, hour_limit) ==
    MinuteAllowed(minute_count, weight, minute_limit)

\* minute_allowed and hour_allowed
WindowsAllowed(minute_count, hour_count, weight, minute_limit, hour_limit) ==
    /\ MinuteAllowed(minute_count, weight, minute_limit)
    /\ HourAllowed(hour_count, weight, hour_limit)

\* the RateLimitStatus built by _check_user_rate_limit and _check_global_rate_limit
RateLimitStatus(minute_count, hour_count, weight, current_time, minute_limit, hour_limit) ==
    [allowed |-> WindowsAllowed(minute_count, hour_count, weight, minute_limit, hour_limit),
     remaining_requests |-> Min(minute_limit - minute_count, hour_limit - hour_count),
     reset_time |-> current_time +
                    (IF ~MinuteAllowed(minute_count, weight, minute_limit)
                     THEN MinuteWindow ELSE HourWindow),
     retry_after |-> IF ~MinuteAllowed(minute_count, weight, minute_limit)
                     THEN RetryAfterMinute
                     ELSE IF ~HourAllowed(hour_count, weight, hour_limit)
                          THEN RetryAfterHour ELSE None,
     current_usage |-> minute_count,
     hourly_usage |-> hour_count]

\* "Return most restrictive limit"
CombinedStatus(u, g) ==
    [allowed |-> u.allowed /\ g.allowed,
     remaining_requests |-> Min(u.remaining_requests, g.remaining_requests),
     reset_time |-> Max(u.reset_time, g.reset_time),
     retry_after |-> IF u.allowed /\ g.allowed THEN None
                     ELSE Max(OrZero(u.retry_after), OrZero(g.retry_after)),
     current_usage |-> Max(u.current_usage, g.current_usage),
     hourly_usage |-> Max(u.hourly_usage, g.hourly_usage)]

\* (variant: the except branch denies the request)
FailOpenStatus_Denied(t) ==
    [allowed |-> FALSE, remaining_requests |-> 0,
     reset_time |-> t + MinuteWindow, retry_after |-> RetryAfterMinute,
     current_usage |-> 0, hourly_usage |-> 0]

\* the status of the except branch of check_rate_limit
FailOpenStatus(t) ==
    [allowed |-> TRUE, remaining_requests |-> FailOpenRemaining,
     reset_time |-> t + MinuteWindow, retry_after |-> None,
     current_usage |-> 0, hourly_usage |-> 0]

\* request_id = f"{current_time}:{task name}"; the same for each of the
\* weight iterations of the loop, and ZADD of a member already present
\* only sets its score again
RequestIds(c, weight, current_time) == {<<current_time, c, 0>>}

IdleCall == [pc |-> "idle", user |-> "u1", weight |-> 1, current_time |-> 0,
             ustatus |-> FailOpenStatus(0), seen |-> <<0, 0, 0, 0>>, prior |-> <<0, 0>>]

NoResult == [valid |-> FALSE, fail_open |-> FALSE, caller |-> "c1", user |-> "u1", weight |-> 1,
             current_time |-> 0, status |-> FailOpenStatus(0),
             seen |-> <<0, 0, 0, 0>>, prior |-> <<0, 0>>]

\* number of calls admitted for p with a time in (t - w, t]
RECURSIVE AdmittedIn(_, _, _)
AdmittedIn(p, t, w) ==
    IF w = 0 \/ t < 0 THEN 0
    ELSE admittedAt[p][t] + AdmittedIn(p, t - 1, w - 1)

\* check_rate_limit up to the reply of the first pipeline of
\* _check_user_rate_limit (MULTI/EXEC: prune and count both user keys)
BeginCheck(c, p, endpoint, weight) ==
    /\ call[c].pc = "idle"
    /\ LET w == ActualWeight(endpoint, weight)
           um == <<p, "minute">>
           uh == <<p, "hour">>
           pruned == [store EXCEPT
                        ![um] = zremrangebyscore(@, now - MinuteWindow),
                        ![uh] = zremrangebyscore(@, now - HourWindow)]
           us == RateLimitStatus(Cardinality(pruned[um]), Cardinality(pruned[uh]),
                                 w, now, RequestsPerMinute, RequestsPerHour)
       IN /\ store' = pruned
          /\ call' = [call EXCEPT ![c] =
                [pc |-> IF us.allowed THEN "record" ELSE "global",
                 user |-> p, weight |-> w, current_time |-> now, ustatus |-> us,
                 seen |-> <<SlidingCount(um, now), SlidingCount(uh, now), 0, 0>>,
                 prior |-> <<AdmittedIn(p, now, MinuteWindow),
                             AdmittedIn(p, now, HourWindow)>>]]
    /\ callsMade' = [callsMade EXCEPT ![c] = @ + 1]
    /\ result' = NoResult
    /\ UNCHANGED <<now, admittedAt, nonLimiterVars>>

\* _record_request: the second pipeline, ZADD to the four keys
RecordRequest(c) ==
    /\ call[c].pc = "record"
    /\ LET ids == RequestIds(c, call[c].weight, call[c].current_time)
           p == call[c].user
       IN store' = [k \in Keys |->
                      IF k[1] \in {p, "global"} THEN store[k] \cup ids ELSE store[k]]
    /\ call' = [call EXCEPT ![c].pc = "global"]
    /\ result' = NoResult
    /\ UNCHANGED <<now, admittedAt, callsMade, nonLimiterVars>>

\* _check_global_rate_limit (third pipeline) and the return of check_rate_limit
GlobalCheck(c) ==
    /\ call[c].pc = "global"
    /\ LET t == call[c].current_time
           gm == <<"global", "minute">>
           gh == <<"global", "hour">>
           pruned == [store EXCEPT
                        ![gm] = zremrangebyscore(@, t - MinuteWindow),
                        ![gh] = zremrangebyscore(@, t - HourWindow)]
           gs == RateLimitStatus(Cardinality(pruned[gm]), Cardinality(pruned[gh]),
                                 call[c].weight, t, GlobalMinuteLimit, GlobalHourLimit)
           st == CombinedStatus(call[c].ustatus, gs)
           p == call[c].user
       IN /\ store' = pruned
          /\ result' =
                [valid |-> TRUE, fail_open |-> FALSE, caller |-> c, user |-> p,
                 weight |-> call[c].weight, current_time |-> t, status |-> st,
                 seen |-> <<call[c].seen[1], call[c].seen[2],
                            SlidingCount(gm, t), SlidingCount(gh, t)>>,
                 prior |-> call[c].prior]
          /\ admittedAt' = IF st.allowed
                           THEN [admittedAt EXCEPT ![p][t] = @ + 1]
                           ELSE admittedAt
    /\ call' = [call EXCEPT ![c] = IdleCall]
    /\ UNCHANGED <<now, callsMade, nonLimiterVars>>

\* a pipeline of the call raises (the backing store is unreachable): the
\* except branch returns the fail-open status
StoreFailure(c) ==
    /\ call[c].pc \in {"record", "global"}
    /\ result' =
            [valid |-> TRUE, fail_open |-> TRUE, caller |-> c, user |-> call[c].user,
             weight |-> call[c].weight, current_time |-> call[c].current_time,
             status |-> FailOpenStatus(now), seen |-> call[c].seen,
             prior |-> call[c].prior]
    /\ call' = [call EXCEPT ![c] = IdleCall]
    /\ UNCHANGED <<now, store, admittedAt, callsMade, nonLimiterVars>>

\* the first pipeline of the call raises: nothing was read, and the except
\* branch returns the fail-open status
UserCheckFailure(c, p, endpoint, weight) ==
    /\ call[c].pc = "idle"
    /\ result' =
            [valid |-> TRUE, fail_open |-> TRUE, caller |-> c, user |-> p,
             weight |-> ActualWeight(endpoint, weight), current_time |-> now,
             status |-> FailOpenStatus(now),
             seen |-> <<SlidingCount(<<p, "minute">>, now),
                        SlidingCount(<<p, "hour">>, now), 0, 0>>,
             prior |-> <<AdmittedIn(p, now, MinuteWindow),
                         AdmittedIn(p, now, HourWindow)>>]
    /\ callsMade' = [callsMade EXCEPT ![c] = @ + 1]
    /\ UNCHANGED <<now, store, call, admittedAt, nonLimiterVars>>

Tick ==
    /\ now < MaxTime
    /\ now' = now + 1
    /\ result' = NoResult
    /\ UNCHANGED <<store, call, admittedAt, callsMade, nonLimiterVars>>

LimiterInit ==
    /\ now = 0
    /\ \E k \in {0, GlobalMinuteLimit - 2} :
         store = [key \in Keys |-> IF key[1] = "global" THEN OtherTraffic(k) ELSE {}]
    /\ call = [c \in Callers |-> IdleCall]
    /\ result = NoResult
    /\ admittedAt = [p \in Principals |-> [t \in 0..(MaxTime + 1) |-> 0]]
    /\ callsMade = [c \in Callers |-> 0]

LimiterNext ==
    \/ \E c \in Callers :
         \/ /\ callsMade[c] = 0
            /\ \E p \in RacePrincipals, e \in Endpoints, w \in Weights :
                   BeginCheck(c, p, e, w)
         \/ /\ callsMade[c] = 0
            /\ \E p \in RacePrincipals, e \in Endpoints, w \in Weights :
                   UserCheckFailure(c, p, e, w)
         \/ RecordRequest(c)
         \/ GlobalCheck(c)
         \/ StoreFailure(c)
    \/ Tick

\* calls made one after the other from one task, weight 1, for either principal
SequentialInit ==
    /\ now = 0
    /\ store = [key \in Keys |-> {}]
    /\ call = [c \in Callers |-> IdleCall]
    /\ result = NoResult
    /\ admittedAt = [p \in Principals |-> [t \in 0..(MaxTime + 1) |-> 0]]
    /\ callsMade = [c \in Callers |-> 0]

SequentialNext ==
    \/ /\ callsMade["c1"] < MaxSequentialCalls
       /\ \E p \in Principals : BeginCheck("c1", p, "default", 1)
    \/ RecordRequest("c1")
    \/ GlobalCheck("c1")
    \/ Tick

\* ------------------------------------------------------------------------
\* ProgressBroadcaster (qa_framework/utils/progress_tracker.py)
\* ------------------------------------------------------------------------
HubTasks == {"t1", "t2"}

\* the task whose subscribers come and go while it broadcasts
FocusTasks == {"t1"}

Subscribers == {"s1", "s2"}

WebSockets == {"w1"}

\* updates each task emits: (1, MaxUpdates), ..., (MaxUpdates, MaxUpdates)
MaxUpdates == 2

MaxHistorySize == 100

\* dict.pop(key, None) / del dict[key]
Pop(d, k) == [x \in DOMAIN d \ {k} |-> d[x]]

\* dict[key] = value
Put(d, k, v) == [x \in DOMAIN d \cup {k} |-> IF x = k THEN v ELSE d[x]]

\* list[-n:]
LastN(q, n) == IF Len(q) <= n THEN q ELSE SubSeq(q, Len(q) - n + 1, Len(q))

subscribe_to_task(subs, task_id, callback) ==
    IF task_id \notin DOMAIN subs THEN Put(subs, task_id, {callback})
    ELSE [subs EXCEPT ![task_id] = @ \cup {callback}]

\* (variant: the entry of the task is kept when its set becomes empty)
unsubscribe_from_task_KeepEntry(subs, task_id, callback) ==
    IF task_id \in DOMAIN subs
    THEN [subs EXCEPT ![task_id] = @ \ {callback}]
    ELSE subs

unsubscribe_from_task(subs, task_id, callback) ==
    IF task_id \in DOMAIN subs
    THEN LET d == [subs EXCEPT ![task_id] = @ \ {callback}]
         IN IF d[task_id] = {} THEN Pop(d, task_id) ELSE d
    ELSE subs

\* (variant: the newest update is put at the head of the history)
store_in_history_Head(h, task_id, progress) ==
    LET old == IF task_id \in DOMAIN h THEN h[task_id] ELSE <<>>
    IN Put(h, task_id, LastN(<<progress>> \o old, MaxHistorySize))

\* the history kept by broadcast_progress, cut to the last _max_history_size
store_in_history(h, task_id, progress) ==
    LET old == IF task_id \in DOMAIN h THEN h[task_id] ELSE <<>>
    IN Put(h, task_id, LastN(Append(old, progress), MaxHistorySize))

\* todo: the callbacks of the snapshot not called yet; failed: a callback of
\* this call has raised
IdleBroadcast == [pc |-> "idle", n |-> 0, pending |-> {}, todo |-> {}, cur |-> "none",
                  failed |-> FALSE]

\* skipped: the callbacks of the snapshot that were never called
NoBroadcastDone == [valid |-> FALSE, task |-> "t1", n |-> 0, raised |-> FALSE,
                    skipped |-> {}, failed |-> FALSE]

\* a frame of the broadcaster's state that a step of task_id's broadcast works on
Hub(task_id) ==
    [b |-> bp[task_id], subs |-> task_subscribers, rec |-> received,
     done |-> NoBroadcastDone, task |-> task_id]

\* broadcast_progress returns (or raises, when raised is true)
end_broadcast(g, raised) ==
    [g EXCEPT !.b = [IdleBroadcast EXCEPT !.n = g.b.n],
              !.done = [valid |-> TRUE, task |-> g.task, n |-> g.b.n, raised |-> raised,
                        skipped |-> g.b.todo, failed |-> g.b.failed]]

\* the next iteration of the loop of _notify_task_subscribers: the callback
\* is called and runs up to its first suspension
call_next(g, callback) ==
    [g EXCEPT !.b.pc = "subscribers", !.b.cur = callback,
              !.b.todo = @ \ {callback},
              !.rec[callback][g.task] = Append(@, g.b.n)]

\* _notify_task_subscribers up to its first iteration
notify_task_subscribers(g) ==
    IF g.task \notin DOMAIN g.subs \/ g.subs[g.task] = {}
    THEN {end_broadcast(g, FALSE)}
    ELSE LET g1 == [g EXCEPT !.b.todo = g.subs[g.task]]
         IN {call_next(g1, cb) : cb \in g.subs[g.task]}

\* after a callback returned, or raised and was removed
next_callback(g) ==
    IF g.b.todo = {} THEN {end_broadcast(g, FALSE)}
    ELSE {call_next(g, cb) : cb \in g.b.todo}

\* the except branch of the loop: self._task_subscribers[task_id].discard(callback);
\* the subscript raises KeyError when the task's entry is gone
callback_raised(g) ==
    LET cb == g.b.cur
        g1 == [g EXCEPT !.b.failed = TRUE]
    IN IF g.task \notin DOMAIN g.subs THEN {end_broadcast(g1, TRUE)}
       ELSE next_callback([g1 EXCEPT !.subs[g.task] = @ \ {cb}])

CommitHub(task_id, g) ==
    /\ bp' = [bp EXCEPT ![task_id] = g.b]
    /\ task_subscribers' = g.subs
    /\ received' = g.rec
    /\ broadcastDone' = g.done

\* ProgressTracker.update_progress appends to the execution's list and awaits
\* the callback, which awaits broadcast_progress: history, then the sends
\* to the websocket connections (asyncio.gather), then the subscribers
BroadcastProgress(task_id) ==
    /\ bp[task_id].pc = "idle"
    /\ bp[task_id].n < MaxUpdates
    /\ LET n == bp[task_id].n + 1
           g == [Hub(task_id) EXCEPT !.b.n = n]
       IN /\ progress_updates' = [progress_updates EXCEPT ![task_id] = Append(@, n)]
          /\ progress_history' = store_in_history(progress_history, task_id, n)
          /\ IF websocket_connections = {}
             THEN \E g2 \in notify_task_subscribers(g) : CommitHub(task_id, g2)
             ELSE CommitHub(task_id, [g EXCEPT !.b.pc = "websockets",
                                               !.b.pending = websocket_connections])
    /\ UNCHANGED <<websocket_connections, nonBroadcasterVars>>

\* _send_websocket_message: send_text returns, or raises and the connection
\* is discarded; gather returns when the last send has ended
SendEnds(task_id, websocket, ok) ==
    /\ bp[task_id].pc = "websockets"
    /\ websocket \in bp[task_id].pending
    /\ websocket_connections' = IF ok THEN websocket_connections
                                ELSE websocket_connections \ {websocket}
    /\ LET g == [Hub(task_id) EXCEPT !.b.pending = @ \ {websocket}]
       IN IF g.b.pending = {}
          THEN \E g2 \in notify_task_subscribers(g) : CommitHub(task_id, g2)
          ELSE CommitHub(task_id, g)
    /\ UNCHANGED <<progress_history, progress_updates, nonBroadcasterVars>>

CallbackReturns(task_id) ==
    /\ bp[task_id].pc = "subscribers"
    /\ \E g2 \in next_callback(Hub(task_id)) : CommitHub(task_id, g2)
    /\ UNCHANGED <<websocket_connections, progress_history, progress_updates, nonBroadcasterVars>>

CallbackRaises(task_id) ==
    /\ bp[task_id].pc = "subscribers"
    /\ \E g2 \in callback_raised(Hub(task_id)) : CommitHub(task_id, g2)
    /\ UNCHANGED <<websocket_connections, progress_history, progress_updates, nonBroadcasterVars>>

SubscribeToTask(task_id, callback) ==
    /\ task_subscribers' = subscribe_to_task(task_subscribers, task_id, callback)
    /\ broadcastDone' = NoBroadcastDone
    /\ UNCHANGED <<websocket_connections, progress_history, progress_updates, bp,
                   received, nonBroadcasterVars>>

UnsubscribeFromTask(task_id, callback) ==
    /\ task_subscribers' = unsubscribe_from_task(task_subscribers, task_id, callback)
    /\ broadcastDone' = NoBroadcastDone
    /\ UNCHANGED <<websocket_connections, progress_history, progress_updates, bp,
                   received, nonBroadcasterVars>>

ClearTaskHistory(task_id) ==
    /\ progress_history' = Pop(progress_history, task_id)
    /\ task_subscribers' = Pop(task_subscribers, task_id)
    /\ broadcastDone' = NoBroadcastDone
    /\ UNCHANGED <<websocket_connections, progress_updates, bp, received,
                   nonBroadcasterVars>>

AddWebsocketConnection(websocket) ==
    /\ websocket_connections' = websocket_connections \cup {websocket}
    /\ broadcastDone' = NoBroadcastDone
    /\ UNCHANGED <<task_subscribers, progress_history, progress_updates, bp, received, nonBroadcasterVars>>

\* remove_websocket_connection, or the WeakSet dropping a collected connection
RemoveWebsocketConnection(websocket) ==
    /\ websocket_connections' = websocket_connections \ {websocket}
    /\ broadcastDone' = NoBroadcastDone
    /\ UNCHANGED <<task_subscribers, progress_history, progress_updates, bp, received, nonBroadcasterVars>>

BroadcasterInit ==
    /\ task_subscribers = <<>>
    /\ websocket_connections = {}
    /\ progress_history = <<>>
    /\ progress_updates = [t \in HubTasks |-> <<>>]
    /\ bp = [t \in HubTasks |-> IdleBroadcast]
    /\ received = [s \in Subscribers |-> [t \in HubTasks |-> <<>>]]
    /\ broadcastDone = NoBroadcastDone

BroadcasterNext ==
    \/ \E t \in FocusTasks :
         \/ BroadcastProgress(t)
         \/ \E w \in WebSockets, ok \in BOOLEAN : SendEnds(t, w, ok)
         \/ CallbackReturns(t)
         \/ CallbackRaises(t)
         \/ \E s \in Subscribers : SubscribeToTask(t, s)
         \/ \E s \in Subscribers : UnsubscribeFromTask(t, s)
         \/ ClearTaskHistory(t)
    \/ \E w \in WebSockets : AddWebsocketConnection(w)
    \/ \E w \in WebSockets : RemoveWebsocketConnection(w)

\* tasks broadcasting concurrently to the callbacks subscribed before they
\* started and to those subscribing meanwhile
FanOutInit ==
    /\ task_subscribers \in [HubTasks -> SUBSET Subscribers \ {{}}]
    /\ websocket_connections \in SUBSET WebSockets
    /\ progress_history = <<>>
    /\ progress_updates = [t \in HubTasks |-> <<>>]
    /\ bp = [t \in HubTasks |-> IdleBroadcast]
    /\ received = [s \in Subscribers |-> [t \in HubTasks |-> <<>>]]
    /\ broadcastDone = NoBroadcastDone

FanOutNext ==
    \E t \in HubTasks :
        \/ BroadcastProgress(t)
        \/ \E w \in WebSockets, ok \in BOOLEAN : SendEnds(t, w, ok)
        \/ CallbackReturns(t)
        \/ CallbackRaises(t)
        \/ \E s \in Subscribers : SubscribeToTask(t, s)

\* ------------------------------------------------------------------------
\* QAWebSocketManager: the task subscriptions (api/routes/websockets.py)
\* ------------------------------------------------------------------------
Connections == {"k1", "k2"}

ws_subscribe_to_task(subs, connection_id, task_id) ==
    LET s1 == IF task_id \notin DOMAIN subs THEN Put(subs, task_id, {}) ELSE subs
    IN [s1 EXCEPT ![task_id] = @ \cup {connection_id}]

ws_unsubscribe_from_task(subs, connection_id, task_id) ==
    IF task_id \in DOMAIN subs
    THEN LET d == [subs EXCEPT ![task_id] = @ \ {connection_id}]
         IN IF d[task_id] = {} THEN Pop(d, task_id) ELSE d
    ELSE subs

NoIndexOp == [obj |-> "none", op |-> "none", task |-> "t1", who |-> "none",
              again |-> FALSE, alone |-> FALSE, same |-> FALSE]

\* what a subscribe/unsubscribe call on the index "before" did: again when
\* it repeats the call made just before it, alone when the task had no
\* other subscriber, same when the index is left as it was
IndexOp(obj, op, task_id, who, before, after) ==
    [obj |-> obj, op |-> op, task |-> task_id, who |-> who,
     again |-> /\ lastIndexOp.obj = obj /\ lastIndexOp.op = op
               /\ lastIndexOp.task = task_id /\ lastIndexOp.who = who,
     alone |-> (task_id \notin DOMAIN before \/ before[task_id] \subseteq {who}),
     same |-> (after = before)]

\* all the indices over the tasks with members from a set
Indices(members) ==
    UNION {[d -> SUBSET members] : d \in SUBSET HubTasks}

\* ProgressBroadcaster.subscribe_to_task / unsubscribe_from_task applied to
\* the index as it is
BroadcasterSubscribe(task_id, callback) ==
    LET after == subscribe_to_task(task_subscribers, task_id, callback)
    IN /\ task_subscribers' = after
       /\ lastIndexOp' = IndexOp("broadcaster", "subscribe", task_id, callback,
                                  task_subscribers, after)
       /\ UNCHANGED <<task_subscriptions, websocket_connections, progress_history,
                      progress_updates, bp, received, broadcastDone, nonHubVars>>

BroadcasterUnsubscribe(task_id, callback) ==
    LET after == unsubscribe_from_task(task_subscribers, task_id, callback)
    IN /\ task_subscribers' = after
       /\ lastIndexOp' = IndexOp("broadcaster", "unsubscribe", task_id, callback,
                                  task_subscribers, after)
       /\ UNCHANGED <<task_subscriptions, websocket_connections, progress_history,
                      progress_updates, bp, received, broadcastDone, nonHubVars>>

\* QAWebSocketManager.subscribe_to_task / unsubscribe_from_task: no await
\* inside, so each is one step
WsSubscribeToTask(connection_id, task_id) ==
    LET after == ws_subscribe_to_task(task_subscriptions, connection_id, task_id)
    IN /\ task_subscriptions' = after
       /\ lastIndexOp' = IndexOp("manager", "subscribe", task_id, connection_id,
                                  task_subscriptions, after)
       /\ UNCHANGED nonManagerVars

WsUnsubscribeFromTask(connection_id, task_id) ==
    LET after == ws_unsubscribe_from_task(task_subscriptions, connection_id, task_id)
    IN /\ task_subscriptions' = after
       /\ lastIndexOp' = IndexOp("manager", "unsubscribe", task_id, connection_id,
                                  task_subscriptions, after)
       /\ UNCHANGED nonManagerVars

ManagerInit ==
    /\ task_subscriptions = <<>>
    /\ lastIndexOp = NoIndexOp

\* the index of the broadcaster in any state it can be left in (an entry
\* may hold an empty set after a failed delivery), the manager as constructed
IndexInit ==
    /\ task_subscribers \in Indices(Subscribers)
    /\ task_subscriptions = <<>>
    /\ lastIndexOp = NoIndexOp
    /\ websocket_connections = {}
    /\ progress_history = <<>>
    /\ progress_updates = [t \in HubTasks |-> <<>>]
    /\ bp = [t \in HubTasks |-> IdleBroadcast]
    /\ received = [s \in Subscribers |-> [t \in HubTasks |-> <<>>]]
    /\ broadcastDone = NoBroadcastDone

IndexNext ==
    \E t \in HubTasks :
        \/ \E s \in Subscribers : BroadcasterSubscribe(t, s)
        \/ \E s \in Subscribers : BroadcasterUnsubscribe(t, s)
        \/ \E k \in Connections : WsSubscribeToTask(k, t)
        \/ \E k \in Connections : WsUnsubscribeFromTask(k, t)

\* ------------------------------------------------------------------------
\* CanvasErrorHandler (core/canvas_error_handler.py)
\* ------------------------------------------------------------------------
\* self.error_patterns, in the order of the dict; len is the length of the
\* pattern string
error_patterns ==
    << [pattern |-> "401", type |-> "unauthorized", len |-> 3],
       [pattern |-> "403", type |-> "forbidden", len |-> 3],
       [pattern |-> "404", type |-> "not_found", len |-> 3],
       [pattern |-> "400", type |-> "bad_request", len |-> 3],
       [pattern |-> "409", type |-> "conflict", len |-> 3],
       [pattern |-> "422", type |-> "validation_error", len |-> 3],
       [pattern |-> "429", type |-> "rate_limited", len |-> 3],
       [pattern |-> "500", type |-> "server_error", len |-> 3],
       [pattern |-> "502", type |-> "gateway_error", len |-> 3],
       [pattern |-> "503", type |-> "service_unavailable", len |-> 3],
       [pattern |-> "504", type |-> "gateway_error", len |-> 3],
       [pattern |-> "maintenance", type |-> "canvas_maintenance", len |-> 11],
       [pattern |-> "temporarily unavailable", type |-> "service_unavailable", len |-> 23],
       [pattern |-> "rate limit", type |-> "rate_limited", len |-> 10],
       [pattern |-> "token expired", type |-> "token_expired", len |-> 13],
       [pattern |-> "invalid token", type |-> "unauthorized", len |-> 13],
       [pattern |-> "insufficient privileges", type |-> "forbidden", len |-> 23],
       [pattern |-> "feature not enabled", type |-> "canvas_feature_disabled", len |-> 19],
       [pattern |-> "overloaded", type |-> "canvas_overloaded", len |-> 10],
       [pattern |-> "timeout", type |-> "network_timeout", len |-> 7],
       [pattern |-> "connection", type |-> "network_connection", len |-> 10],
       [pattern |-> "dns", type |-> "network_connection", len |-> 3] >>

\* a retry configuration; delays in tenths of a second, None when the
\* entry has none
RetryConfig(strategy, max_retries, base_delay, max_delay) ==
    [strategy |-> strategy, max_retries |-> max_retries,
     base_delay |-> base_delay, max_delay |-> max_delay]

\* self.retry_configs
retry_configs ==
    [t \in {"network_timeout", "network_connection", "server_error", "gateway_error",
            "service_unavailable", "rate_limited", "canvas_maintenance",
            "canvas_overloaded", "unauthorized", "forbidden", "not_found",
            "bad_request", "validation_error", "canvas_feature_disabled",
            "token_expired"} |->
        CASE t = "network_timeout" -> RetryConfig("exponential_backoff", 5, 20, 600)
          [] t = "network_connection" -> RetryConfig("exponential_backoff", 3, 10, 300)
          [] t = "server_error" -> RetryConfig("exponential_backoff", 3, 50, 1200)
          [] t = "gateway_error" -> RetryConfig("linear_backoff", 3, 100, 600)
          [] t = "service_unavailable" -> RetryConfig("exponential_backoff", 5, 300, 3000)
          [] t = "rate_limited" -> RetryConfig("rate_limit_backoff", 10, 600, 9000)
          [] t = "canvas_maintenance" -> RetryConfig("linear_backoff", 3, 3000, 18000)
          [] t = "canvas_overloaded" -> RetryConfig("exponential_backoff", 5, 600, 6000)
          [] t = "token_expired" -> RetryConfig("immediate_retry", 1, None, None)
          [] OTHER -> RetryConfig("no_retry", 0, None, None)]

\* RetryContext.base_delay and max_delay, in tenths of a second
DefaultBaseDelay == 10

DefaultMaxDelay == 600

\* the delay of an immediate retry, in tenths of a second
ImmediateDelay == 1

\* the defaults of config.get(...) in the two classifications
HttpDefaultMaxRetries == 0

ExceptionDefaultMaxRetries == 3

UnknownMaxRetries == 2

\* attempts a retry loop makes
MaxAttempt == 4

\* the inputs: HTTP statuses, the patterns a response body or an exception
\* message contains, parsed Retry-After headers, exception classes
Statuses == {401, 404, 418, 429, 500, 502, 503}

BodyWords == {"maintenance", "temporarily unavailable", "token expired", "timeout"}

RetryAfterHeaders == {None, 5, 2000}

ExceptionClasses == {"asyncio.TimeoutError", "aiohttp.ServerTimeoutError",
                     "aiohttp.ClientConnectorError", "Exception"}

MessageWords == {"ssl", "timeout", "connection", "404"}

\* 0.5 + 0.5 * random.random(), in percent; 100 when retry_context.jitter is off
JitterFactors == {50, 75, 99, 100}

\* isinstance(exception, base)
IsInstance(cls, base) ==
    \/ cls = base
    \/ cls = "aiohttp.ServerTimeoutError" /\ base = "asyncio.TimeoutError"

\* the type of the first pattern of error_patterns among those at the
\* positions idx, or the default
FirstPattern(idx, default) ==
    IF idx = {} THEN default
    ELSE error_patterns[CHOOSE i \in idx : \A j \in idx : i <= j].type

\* the positions of error_patterns
Positions == 1..Len(error_patterns)

\* str() of an HTTP status of the inputs
StatusStr(status_code) ==
    CASE status_code = 400 -> "400" [] status_code = 403 -> "403"
      [] status_code = 409 -> "409" [] status_code = 422 -> "422"
      [] status_code = 401 -> "401" [] status_code = 404 -> "404"
      [] status_code = 418 -> "418" [] status_code = 429 -> "429"
      [] status_code = 500 -> "500" [] status_code = 502 -> "502"
      [] status_code = 503 -> "503"

get_error_type_from_status(status_code) ==
    FirstPattern({i \in Positions : error_patterns[i].pattern = StatusStr(status_code)},
                 "unknown")

\* content: the patterns the lower-cased body contains
refine_error_type_from_content(initial_type, content) ==
    FirstPattern({i \in Positions : /\ error_patterns[i].pattern \in content
                                     /\ error_patterns[i].type # initial_type
                                     /\ error_patterns[i].len > 3},
                 initial_type)

CanvasError(error_type, http_status, strategy, retry_after, max_retries) ==
    [valid |-> TRUE, error_type |-> error_type, http_status |-> http_status,
     retry_strategy |-> strategy, retry_after |-> retry_after,
     max_retries |-> max_retries]

NoCanvasError == [CanvasError("unknown", None, "no_retry", None, 0) EXCEPT !.valid = FALSE]

\* the type of a response: by status code, then refined by the body
refined_type(status_code, body) ==
    LET initial == get_error_type_from_status(status_code)
    IN IF body # {} THEN refine_error_type_from_content(initial, body) ELSE initial

\* (variant: a type without a retry configuration is retried like an exception)
classify_http_error_RetryByDefault(status_code, body, header) ==
    LET error_type == refined_type(status_code, body)
        configured == error_type \in DOMAIN retry_configs
    IN CanvasError(error_type, status_code,
                   IF configured THEN retry_configs[error_type].strategy
                   ELSE "exponential_backoff",
                   IF error_type = "rate_limited" THEN header ELSE None,
                   IF configured THEN retry_configs[error_type].max_retries
                   ELSE ExceptionDefaultMaxRetries)

classify_http_error(status_code, body, header) ==
    LET error_type == refined_type(status_code, body)
        configured == error_type \in DOMAIN retry_configs
    IN CanvasError(error_type, status_code,
                   IF configured THEN retry_configs[error_type].strategy ELSE "no_retry",
                   IF error_type = "rate_limited" THEN header ELSE None,
                   IF configured THEN retry_configs[error_type].max_retries
                   ELSE HttpDefaultMaxRetries)

\* (variant: the message patterns are looked at before the exception class)
exception_type_MessageFirst(cls, message) ==
    FirstPattern({i \in Positions : error_patterns[i].pattern \in message},
                 IF IsInstance(cls, "asyncio.TimeoutError")
                 THEN "network_timeout" ELSE "unknown")

\* the type of an exception; aiohttp.ClientTimeout is not an exception
\* class, so that branch is never taken
exception_type(cls, message) ==
    LET InMessage == {i \in Positions : error_patterns[i].pattern \in message}
    IN CASE IsInstance(cls, "asyncio.TimeoutError") -> "network_timeout"
         [] IsInstance(cls, "aiohttp.ClientConnectorError") -> "network_connection"
         [] "ssl" \in message \/ "certificate" \in message -> "network_connection"
         [] OTHER -> FirstPattern(InMessage, "unknown")

classify_exception_error(cls, message) ==
    LET error_type == exception_type(cls, message)
        configured == error_type \in DOMAIN retry_configs
    IN CanvasError(error_type, None,
                   IF configured THEN retry_configs[error_type].strategy
                   ELSE "exponential_backoff",
                   None,
                   IF configured THEN retry_configs[error_type].max_retries
                   ELSE ExceptionDefaultMaxRetries)

create_unknown_error ==
    CanvasError("unknown", None, "exponential_backoff", None, UnknownMaxRetries)

classify_error(input) ==
    CASE input.kind = "response" ->
            classify_http_error(input.status, input.body, input.header)
      [] input.kind = "exception" -> classify_exception_error(input.cls, input.message)
      [] OTHER -> create_unknown_error

RECURSIVE Pow(_, _)
Pow(b, e) == IF e = 0 THEN 1 ELSE b * Pow(b, e - 1)

\* delays are held as whole numbers of this fraction of a tenth of a
\* second, so that 1.5 ** (attempt - 1) and the jitter in percent are exact
Unit == Pow(2, MaxAttempt - 1) * 100

\* error_config.get('base_delay', retry_context.base_delay), in tenths
base_delay_of(error) ==
    IF error.error_type \in DOMAIN retry_configs
       /\ retry_configs[error.error_type].base_delay # None
    THEN retry_configs[error.error_type].base_delay ELSE DefaultBaseDelay

\* error_config.get('max_delay', retry_context.max_delay), in tenths
max_delay_of(error) ==
    IF error.error_type \in DOMAIN retry_configs
       /\ retry_configs[error.error_type].max_delay # None
    THEN retry_configs[error.error_type].max_delay ELSE DefaultMaxDelay

\* the delay before the jitter, as a multiple of Unit / 100
raw_delay(error, attempt) ==
    LET base == base_delay_of(error)
        half == Pow(2, MaxAttempt - 1)
    IN CASE error.retry_strategy = "linear_backoff" -> base * attempt * half
         [] error.retry_strategy = "exponential_backoff" ->
                base * Pow(2, attempt - 1) * half
         [] error.retry_strategy = "rate_limit_backoff" ->
                IF error.retry_after # None /\ error.retry_after # 0
                THEN error.retry_after * 10 * half
                ELSE base * Pow(3, attempt - 1) * Pow(2, MaxAttempt - attempt)
         [] OTHER -> base * half

\* (variant: the delay is not cut to max_delay)
calculate_retry_delay_Uncapped(error, attempt, jitter) ==
    CASE error.retry_strategy = "no_retry" -> 0
      [] error.retry_strategy = "immediate_retry" -> ImmediateDelay * Unit
      [] OTHER -> raw_delay(error, attempt) * jitter

\* calculate_retry_delay, in Units
calculate_retry_delay(error, attempt, jitter) ==
    CASE error.retry_strategy = "no_retry" -> 0
      [] error.retry_strategy = "immediate_retry" -> ImmediateDelay * Unit
      [] OTHER -> Min(raw_delay(error, attempt) * jitter, max_delay_of(error) * Unit)

NoInput == [kind |-> "none", status |-> 0, body |-> {}, header |-> None,
            cls |-> "none", message |-> {}]

ErrorInputs ==
    {[NoInput EXCEPT !.kind = "response", !.status = st, !.body = b, !.header = h] :
        st \in Statuses, b \in SUBSET BodyWords, h \in RetryAfterHeaders}
    \cup {[NoInput EXCEPT !.kind = "exception", !.cls = c, !.message = m] :
        c \in ExceptionClasses, m \in SUBSET MessageWords}
    \cup {NoInput}

NoDelay == [valid |-> FALSE, attempt |-> 0, jitter |-> 100, delay |-> 0]

ClassifyError ==
    /\ ~canvasError.valid
    /\ canvasError' = classify_error(errInput)
    /\ UNCHANGED <<errInput, prevDelay, lastDelay, retryDecision, nonHandlerVars>>

\* the retry loop asks for the delay of an attempt
CalculateRetryDelay(attempt, jitter) ==
    /\ canvasError.valid
    /\ ~prevDelay.valid
    /\ lastDelay' = [valid |-> TRUE, attempt |-> attempt, jitter |-> jitter,
                     delay |-> calculate_retry_delay(canvasError, attempt, jitter)]
    /\ prevDelay' = lastDelay
    /\ UNCHANGED <<errInput, canvasError, retryDecision, nonHandlerVars>>

NoDecision == [valid |-> FALSE, attempt |-> 0, retry |-> FALSE]

\* (variant: the attempt that equals max_retries is not retried)
should_retry_Strict(error, attempt) ==
    IF error.retry_strategy = "no_retry" THEN FALSE ELSE attempt < error.max_retries

should_retry(error, attempt) ==
    IF error.retry_strategy = "no_retry" THEN FALSE ELSE attempt <= error.max_retries

\* the retry loop asks whether the attempt that failed is to be retried
ShouldRetry(attempt) ==
    /\ canvasError.valid
    /\ retryDecision' = [valid |-> TRUE, attempt |-> attempt,
                         retry |-> should_retry(canvasError, attempt)]
    /\ UNCHANGED <<errInput, canvasError, prevDelay, lastDelay, nonHandlerVars>>

HandlerInit ==
    /\ errInput = NoInput
    /\ canvasError = NoCanvasError
    /\ prevDelay = NoDelay
    /\ lastDelay = NoDelay
    /\ retryDecision = NoDecision

ClassifierInit ==
    /\ errInput \in ErrorInputs
    /\ canvasError = NoCanvasError
    /\ prevDelay = NoDelay
    /\ lastDelay = NoDelay
    /\ retryDecision = NoDecision

ClassifierNext ==
    \/ ClassifyError
    \/ \E a \in 1..MaxAttempt, j \in JitterFactors : CalculateRetryDelay(a, j)

\* ------------------------------------------------------------------------
\* ProductionCanvasService._make_request (services/canvas_service.py)
\* ------------------------------------------------------------------------
\* the max_retries argument: the default and a smaller one
MaxRetriesArgs == {1, 3}

\* pages a paginated response may go on for
MaxPages == 2

\* what the remote side answers to an attempt: 200, an error response, or
\* the request raises
ServiceStatuses == {400, 401, 403, 404, 409, 422, 429, 503}

RemoteInputs ==
    {[NoInput EXCEPT !.kind = "ok"]}
    \cup {[NoInput EXCEPT !.kind = "response", !.status = st, !.body = b] :
             st \in ServiceStatuses, b \in {{}, {"maintenance"}}}
    \cup {[NoInput EXCEPT !.kind = "exception", !.cls = c] :
             c \in {"asyncio.TimeoutError", "Exception"}}

IdleRequest ==
    [pc |-> "idle", max_retries |-> 0, paginated |-> FALSE, attempt |-> 0,
     last_error |-> NoCanvasError, outcome |-> "none",
     admissions |-> 0, remote_calls |-> 0, pages |-> 0, seen |-> <<>>]

\* the last lines: raise Exception(...), with or without a last_error
raise_to_caller(r) == [r EXCEPT !.pc = "done", !.outcome = "raised"]

\* (variant: the loop does not look at max_retries)
loop_head_Unbounded(r) == [r EXCEPT !.pc = "request"]

\* while attempt < max_retries
loop_head(r) ==
    IF r.attempt < r.max_retries THEN [r EXCEPT !.pc = "request"] ELSE raise_to_caller(r)

\* both error branches of the loop: classify, log, keep as last_error, break
\* when should_retry says no, otherwise sleep for the retry delay and loop
handle_failure(r, input, jitter) ==
    LET canvas_error == classify_error(input)
        retry == should_retry(canvas_error, r.attempt)
        delay == calculate_retry_delay(canvas_error, r.attempt, jitter)
        r1 == [r EXCEPT !.last_error = canvas_error,
                        !.seen = Append(@, [input |-> input, retry |-> retry,
                                            slept |-> retry /\ delay > 0])]
    IN IF retry THEN loop_head(r1) ELSE raise_to_caller(r1)

\* _make_request up to its loop: admitted is what wait_for_canvas_availability
\* returned
MakeRequest(max_retries, paginated, admitted) ==
    /\ req.pc \in {"idle", "done"}
    /\ req' = LET r == [IdleRequest EXCEPT !.max_retries = max_retries,
                                           !.paginated = paginated]
              IN IF admitted THEN loop_head([r EXCEPT !.admissions = 1])
                 ELSE raise_to_caller(r)
    /\ UNCHANGED nonServiceVars

\* one pass of the loop: the request is sent and answered
Attempt(input, jitter) ==
    /\ req.pc = "request"
    /\ req' = LET r == [req EXCEPT !.attempt = @ + 1, !.remote_calls = @ + 1]
              IN IF input.kind = "ok"
                 THEN IF r.paginated THEN [r EXCEPT !.pc = "page"]
                      ELSE [r EXCEPT !.pc = "done", !.outcome = "returned"]
                 ELSE handle_failure(r, input, jitter)
    /\ UNCHANGED nonServiceVars

\* _handle_paginated_response from the parsing of a page to the next
\* session.get: the parsing raises (the exception reaches the except clause
\* of the loop), or there is no next link, or the limiter is asked
HandlePage(parsed, has_next, admitted, jitter) ==
    /\ req.pc = "page"
    /\ req' = IF ~parsed
              THEN handle_failure(req, [NoInput EXCEPT !.kind = "exception", !.cls = "Exception"],
                                  jitter)
              ELSE IF ~has_next \/ ~admitted \/ req.pages >= MaxPages
              THEN [req EXCEPT !.pc = "done", !.outcome = "returned"]
              ELSE [req EXCEPT !.pc = "fetch", !.admissions = @ + 1]
    /\ UNCHANGED nonServiceVars

\* session.get(next_url): another page, or a failure that ends the pages
FetchPage(ok) ==
    /\ req.pc = "fetch"
    /\ req' = LET r == [req EXCEPT !.remote_calls = @ + 1, !.pages = @ + 1]
              IN IF ok THEN [r EXCEPT !.pc = "page"]
                 ELSE [r EXCEPT !.pc = "done", !.outcome = "returned"]
    /\ UNCHANGED nonServiceVars

ServiceInit == req = IdleRequest

ServiceNext ==
    \/ \E m \in MaxRetriesArgs, p, a \in BOOLEAN : MakeRequest(m, p, a)
    \/ \E input \in RemoteInputs, j \in JitterFactors : Attempt(input, j)
    \/ \E parsed, n, a \in BOOLEAN, j \in JitterFactors : HandlePage(parsed, n, a, j)
    \/ \E ok \in BOOLEAN : FetchPage(ok)

\* ------------------------------------------------------------------------
\* RateLimiter of the execution engine (execution_engine.py)
\* ------------------------------------------------------------------------
\* calls_per_minute (180) and calls_per_hour (4800), scaled down
CallsPerMinute == 2

CallsPerHour == 3

\* the 60 s and the 3600 s of acquire, scaled down
EngineMinute == 2

EngineHour == 4

MaxEngineClock == 6

\* [t for t in calls if t > now - window]
younger(calls, t_now, window) == SelectSeq(calls, LAMBDA t : t > t_now - window)

\* (variant: only the minute list is checked)
limit_reached_MinuteOnly(mc, hc) == Len(mc) >= CallsPerMinute

\* the two checks of acquire on the pruned lists
limit_reached(mc, hc) == Len(mc) >= CallsPerMinute \/ Len(hc) >= CallsPerHour

\* acquire: the lock is free whenever a caller reaches it, because nothing
\* awaits while holding it, so the whole call is one step
Acquire ==
    LET mc == younger(minute_calls, engine_now, EngineMinute)
        hc == younger(hour_calls, engine_now, EngineHour)
        denied == limit_reached(mc, hc)
    IN /\ minute_calls' = IF denied THEN mc ELSE Append(mc, engine_now)
       /\ hour_calls' = IF denied THEN hc ELSE Append(hc, engine_now)
       /\ lastAcquire' = [valid |-> TRUE, ret |-> ~denied, at |-> engine_now,
                          minute_before |-> mc, hour_before |-> hc]
       /\ UNCHANGED <<engine_now, nonRateVars>>

\* time passes between two calls
EngineClockTick ==
    /\ engine_now < MaxEngineClock
    /\ engine_now' = engine_now + 1
    /\ UNCHANGED <<minute_calls, hour_calls, lastAcquire, nonRateVars>>

RateInit ==
    /\ minute_calls = <<>>
    /\ hour_calls = <<>>
    /\ engine_now = 0
    /\ lastAcquire = [valid |-> FALSE, ret |-> FALSE, at |-> 0,
                      minute_before |-> <<>>, hour_before |-> <<>>]

RateNext == Acquire \/ EngineClockTick

\* ------------------------------------------------------------------------
\* QATaskRegistry (qa_framework/base/task_registry.py)
\* ------------------------------------------------------------------------
\* the classes handed to register_task: two QATask subclasses, a class that
\* is not a QATask, and a QATask whose constructor raises
TaskClasses == {"FindReplaceQATask", "LinkCheckQATask", "NotATask", "BrokenTask"}

\* the version strings in use
Versions == {"1.0.0", "2.0.0", "3.0.0", "10.0.0"}

\* task_class().get_task_info()
get_task_info(task_class) ==
    IF task_class = "FindReplaceQATask"
    THEN [name |-> "find_replace", version |-> "1.0.0"]
    ELSE [name |-> "link_check", version |-> "2.0.0"]

TaskNames == {"find_replace", "link_check"}

\* the code points of a version string
Chars(v) ==
    CASE v = "1.0.0" -> <<49, 46, 48, 46, 48>>
      [] v = "2.0.0" -> <<50, 46, 48, 46, 48>>
      [] v = "3.0.0" -> <<51, 46, 48, 46, 48>>
      [] v = "10.0.0" -> <<49, 48, 46, 48, 46, 48>>

\* a > b of two Python sequences of code points
RECURSIVE SeqGreater(_, _)
SeqGreater(a, b) ==
    IF a = <<>> THEN FALSE
    ELSE IF b = <<>> THEN TRUE
    ELSE IF Head(a) # Head(b) THEN Head(a) > Head(b)
    ELSE SeqGreater(Tail(a), Tail(b))

\* a > b of two Python strings
StrGreater(a, b) == SeqGreater(Chars(a), Chars(b))

NoRegister == [valid |-> FALSE, task_class |-> "none", name |-> "none",
               version |-> "none", ok |-> FALSE]

\* register_task returned
RegisterResult(task_class, name, version, ok) ==
    [valid |-> TRUE, task_class |-> task_class, name |-> name,
     version |-> version, ok |-> ok]

\* register_task(task_class, name, version); name "none" is None
RegisterTask(task_class, name, version) ==
    LET info == get_task_info(task_class)
        task_name == IF name = "none" THEN info.name ELSE name
        refused == \/ task_class \in {"NotATask", "BrokenTask"}
                   \/ /\ task_name \in DOMAIN tasks
                      /\ ~StrGreater(version, task_info[task_name].version)
    IN /\ lastRegister' = RegisterResult(task_class, name, version, ~refused)
       /\ IF refused
          THEN UNCHANGED <<tasks, task_info, task_metadata>>
          ELSE /\ tasks' = Put(tasks, task_name, task_class)
               /\ task_info' = Put(task_info, task_name, info)
               /\ task_metadata' = Put(task_metadata, task_name,
                                       [version |-> version, class_name |-> task_class])
       /\ UNCHANGED nonRegistryVars

RegistryInit ==
    /\ tasks = <<>>
    /\ task_info = <<>>
    /\ task_metadata = <<>>
    /\ lastRegister = NoRegister

RegistryNext ==
    \E c \in TaskClasses, n \in TaskNames \cup {"none"}, v \in Versions :
        RegisterTask(c, n, v)

\* ------------------------------------------------------------------------
\* ProductionCanvasRateLimiter.wait_for_availability (core/rate_limiter.py)
\* ------------------------------------------------------------------------
\* the clock of the waiting caller stops here
MaxClock == 12

\* the values of max_wait, in seconds
MaxWaits == {3, 8}

IdleWaiter == [pc |-> "idle", start_time |-> 0, max_wait |-> 0, wait_time |-> 0,
               wake |-> 0, sleeps |-> <<>>, polls |-> <<>>, admitted |-> FALSE,
               ret |-> FALSE]

\* while time.time() - start_time < max_wait: ... else return False
loop_or_return(w) ==
    IF now - w.start_time < w.max_wait
    THEN [w EXCEPT !.pc = "polling", !.polls = Append(@, now - w.start_time)]
    ELSE [w EXCEPT !.pc = "returned", !.ret = FALSE]

\* if status.retry_after: wait_time = min(status.retry_after, wait_time * 2)
next_wait_time(wait_time, retry_after) ==
    IF retry_after # None /\ retry_after # 0 THEN Min(retry_after, wait_time * 2)
    ELSE wait_time

\* the call begins: start_time, wait_time = 1, the first test of the loop
WaitForAvailability(max_wait) ==
    /\ waiter.pc = "idle"
    /\ waiter' = loop_or_return([IdleWaiter EXCEPT !.start_time = now,
                                                   !.max_wait = max_wait,
                                                   !.wait_time = 1])
    /\ UNCHANGED <<now, store, call, result, admittedAt, callsMade, lastReset, nonWaiterVars>>

\* check_rate_limit returns a status: allowed, or denied with the
\* retry_after of the window that is full
PollReturns(allowed, retry_after) ==
    /\ waiter.pc = "polling"
    /\ waiter' = IF allowed
                 THEN [waiter EXCEPT !.pc = "returned", !.ret = TRUE, !.admitted = TRUE]
                 ELSE LET wt == next_wait_time(waiter.wait_time, retry_after)
                      IN [waiter EXCEPT !.pc = "sleeping", !.wait_time = wt,
                                        !.wake = now + wt, !.sleeps = Append(@, wt)]
    /\ UNCHANGED <<now, store, call, result, admittedAt, callsMade, lastReset, nonWaiterVars>>

\* asyncio.sleep(wait_time) is over; the loop condition is tested again
SleepEnds ==
    /\ waiter.pc = "sleeping"
    /\ now >= waiter.wake
    /\ waiter' = loop_or_return(waiter)
    /\ UNCHANGED <<now, store, call, result, admittedAt, callsMade, lastReset, nonWaiterVars>>

\* a second passes
ClockTick ==
    /\ now < MaxClock
    /\ now' = now + 1
    /\ UNCHANGED <<store, call, result, admittedAt, callsMade, waiter, lastReset, nonWaiterVars>>

NoReset == [valid |-> FALSE, user |-> "none", ok |-> FALSE, before |-> <<0, 0>>,
            after |-> <<0, 0>>, others_unchanged |-> TRUE]

WaiterInit == waiter = IdleWaiter /\ lastReset = NoReset

\* get_rate_limit_stats: user_minute_usage and user_hour_usage
user_usage(st, p) == <<Cardinality(st[<<p, "minute">>]), Cardinality(st[<<p, "hour">>])>>

\* (variant: only the minute key is deleted)
reset_pipeline_MinuteOnly(st, p) == [st EXCEPT ![<<p, "minute">>] = {}]

\* pipe.delete(minute_key); pipe.delete(hour_key); pipe.execute()
reset_pipeline(st, p) == [st EXCEPT ![<<p, "minute">>] = {}, ![<<p, "hour">>] = {}]

\* reset_user_limits: the pipeline is executed and True is returned
ResetUserLimits(p) ==
    LET after == reset_pipeline(store, p)
    IN /\ store' = after
       /\ lastReset' = [valid |-> TRUE, user |-> p, ok |-> TRUE,
                         before |-> user_usage(store, p), after |-> user_usage(after, p),
                         others_unchanged |->
                             \A q \in Principals \ {p} :
                                 /\ after[<<q, "minute">>] = store[<<q, "minute">>]
                                 /\ after[<<q, "hour">>] = store[<<q, "hour">>]]
       /\ result' = NoResult
       /\ UNCHANGED <<now, call, admittedAt, callsMade, waiter, nonWaiterVars>>

\* reset_user_limits: the pipeline raises and False is returned
ResetFails(p) ==
    /\ lastReset' = [valid |-> TRUE, user |-> p, ok |-> FALSE,
                      before |-> user_usage(store, p), after |-> user_usage(store, p),
                      others_unchanged |-> TRUE]
    /\ result' = NoResult
    /\ UNCHANGED <<now, store, call, admittedAt, callsMade, waiter, nonWaiterVars>>

\* sequential checks for either principal, and resets by an administrator
ResetNext ==
    \/ /\ callsMade["c1"] < MaxSequentialCalls
       /\ \E p \in Principals : BeginCheck("c1", p, "default", 1)
    \/ RecordRequest("c1")
    \/ GlobalCheck("c1")
    \/ Tick
    \/ \E p \in Principals : ResetUserLimits(p)
    \/ \E p \in Principals : ResetFails(p)

WaiterNext ==
    \/ \E m \in MaxWaits : WaitForAvailability(m)
    \/ \E r \in {RetryAfterMinute, RetryAfterHour} : PollReturns(FALSE, r)
    \/ PollReturns(TRUE, None)
    \/ SleepEnds
    \/ ClockTick

\* ------------------------------------------------------------------------
\* QAWebSocketManager and WebSocketProgressBroadcaster (api/routes/websockets.py)
\* ------------------------------------------------------------------------
\* so many progress updates are broadcast at most
MaxBroadcasts == 2

\* the manager's dictionaries as one value
Manager == [active |-> active_connections, metadata |-> connection_metadata,
            tasks |-> task_subscriptions, users |-> user_subscriptions]

\* QAWebSocketManager.disconnect
disconnect(m, connection_id) ==
    IF connection_id \notin m.active THEN m
    ELSE LET user_id == IF connection_id \in DOMAIN m.metadata
                        THEN m.metadata[connection_id] ELSE "none"
             discarded == [t \in DOMAIN m.tasks |-> m.tasks[t] \ {connection_id}]
             kept == {t \in DOMAIN discarded : discarded[t] # {}}
             users1 == IF user_id # "none" /\ user_id \in DOMAIN m.users
                       THEN LET d == [m.users EXCEPT ![user_id] = @ \ {connection_id}]
                            IN IF d[user_id] = {} THEN Pop(d, user_id) ELSE d
                       ELSE m.users
         IN [active |-> m.active \ {connection_id},
             metadata |-> Pop(m.metadata, connection_id),
             tasks |-> [t \in kept |-> discarded[t]],
             users |-> users1]

\* writes the manager's dictionaries back
CommitManager(m) ==
    /\ active_connections' = m.active
    /\ connection_metadata' = m.metadata
    /\ task_subscriptions' = m.tasks
    /\ user_subscriptions' = m.users

IdleWsBroadcast == [pc |-> "idle", n |-> 0, task |-> "none", user |-> "none", todo |-> {}]

\* the copy of the subscriber set a broadcast loop iterates over
subscribers_copy(index, key) == IF key \in DOMAIN index THEN index[key] ELSE {}

\* broadcast_to_user: connections = self.user_subscriptions[user_id].copy()
user_connections(m, b) == subscribers_copy(m.users, b.user)

\* moves on when the loop of broadcast_to_task_subscribers or of
\* broadcast_to_user has no connection left
next_loop(m, b) ==
    IF b.todo # {} THEN b
    ELSE IF b.pc = "task" /\ b.user # "none" /\ user_connections(m, b) # {}
         THEN [b EXCEPT !.pc = "user", !.todo = user_connections(m, b)]
         ELSE [IdleWsBroadcast EXCEPT !.n = b.n]

\* websocket_qa_progress up to its message loop: websocket.accept()
\* returned and connect stores the connection
Connect(connection_id, user_id) ==
    /\ connection_id \notin active_connections
    /\ connection_id \notin endpoints
    /\ endpoints' = endpoints \cup {connection_id}
    /\ active_connections' = active_connections \cup {connection_id}
    /\ connection_metadata' = Put(connection_metadata, connection_id, user_id)
    /\ user_subscriptions' =
           Put(user_subscriptions, user_id,
               subscribers_copy(user_subscriptions, user_id) \cup {connection_id})
    /\ UNCHANGED <<task_subscriptions, lastIndexOp, wsb, delivered, nonWsVars>>

\* the handler of the connection ends (the client went away, or an error):
\* its finally clause calls disconnect
Disconnect(connection_id) ==
    /\ connection_id \in endpoints
    /\ endpoints' = endpoints \ {connection_id}
    /\ CommitManager(disconnect(Manager, connection_id))
    /\ UNCHANGED <<lastIndexOp, wsb, delivered, nonWsVars>>

\* broadcast_progress_update(update_data) up to its first send; user_id
\* "none" is an update without user_id
BroadcastProgressUpdate(task_id, user_id) ==
    /\ wsb.pc = "idle"
    /\ wsb.n < MaxBroadcasts
    /\ wsb' = next_loop(Manager, [pc |-> "task", n |-> wsb.n + 1, task |-> task_id,
                                  user |-> user_id,
                                  todo |-> subscribers_copy(task_subscriptions, task_id)])
    /\ UNCHANGED <<active_connections, connection_metadata, user_subscriptions,
                   task_subscriptions, lastIndexOp, endpoints, delivered, nonWsVars>>

\* send_personal_message for the next connection of the loop: the send
\* returns or raises; a connection no longer active is passed over
SendPersonalMessage(connection_id, ok) ==
    /\ wsb.pc \in {"task", "user"}
    /\ connection_id \in wsb.todo
    /\ LET sent == connection_id \in active_connections
           m == IF sent /\ ~ok THEN disconnect(Manager, connection_id) ELSE Manager
       IN /\ CommitManager(m)
          /\ delivered' = IF sent /\ ok
                           THEN [delivered EXCEPT ![connection_id][wsb.n] = @ + 1]
                           ELSE delivered
          /\ wsb' = next_loop(m, [wsb EXCEPT !.todo = @ \ {connection_id}])
    /\ UNCHANGED <<lastIndexOp, endpoints, nonWsVars>>

\* the message loop of websocket_qa_progress handles a 'subscribe' or an
\* 'unsubscribe' message of its client
EndpointSubscribe(connection_id, task_id) ==
    /\ connection_id \in endpoints
    /\ WsSubscribeToTask(connection_id, task_id)

EndpointUnsubscribe(connection_id, task_id) ==
    /\ connection_id \in endpoints
    /\ WsUnsubscribeFromTask(connection_id, task_id)

WsInit ==
    /\ active_connections = {}
    /\ connection_metadata = <<>>
    /\ user_subscriptions = <<>>
    /\ endpoints = {}
    /\ wsb = IdleWsBroadcast
    /\ delivered = [k \in Connections |-> [n \in 1..MaxBroadcasts |-> 0]]

WsNext ==
    \/ \E k \in Connections, u \in Principals : Connect(k, u)
    \/ \E k \in Connections : Disconnect(k)
    \/ \E k \in Connections, t \in FocusTasks : EndpointSubscribe(k, t)
    \/ \E k \in Connections, t \in FocusTasks : EndpointUnsubscribe(k, t)
    \/ \E t \in FocusTasks, u \in Principals \cup {"none"} : BroadcastProgressUpdate(t, u)
    \/ \E k \in Connections, ok \in BOOLEAN : SendPersonalMessage(k, ok)

vars == <<engineVars, limiterVars, waiterVars, broadcasterVars, managerVars, wsVars, handlerVars, registryVars, serviceVars, rateVars>>

\* the engine alone
InitEngine == EngineInit /\ SequentialInit /\ BroadcasterInit /\ ManagerInit /\ HandlerInit /\ RegistryInit /\ WaiterInit /\ WsInit /\ ServiceInit /\ RateInit

SpecEngine == InitEngine /\ [][EngineNext]_vars

\* the execution that cancel_execution is called for
CancelledIds == {"t1"}

\* two executions, of which one is also cancelled by the user
IsolationNext ==
    \/ \E id \in TaskIds, type \in TaskTypes, cb \in BOOLEAN : ExecuteTask(id, type, cb)
    \/ \E id \in TaskIds : RoutineStep(id)
    \/ \E id \in CancelledIds : CancelExecution(id)

\* the event loop runs every routine that is ready; the hooks, the callbacks
\* and the main body (bounded by its timeout) return
SpecEngineLive ==
    InitEngine /\ [][IsolationNext]_vars /\ \A id \in TaskIds : WF_vars(RoutineStep(id))

\* one execution whose main body reports progress through its tracker
SpecProgress == InitEngine /\ [][ProgressNext]_vars

\* one execution whose error hook may raise
SpecErrors == InitEngine /\ [][ErrorNext]_vars

\* the Canvas service alone: one _make_request call after another
InitService == EngineInit /\ SequentialInit /\ BroadcasterInit /\ ManagerInit /\ HandlerInit /\ RegistryInit /\ WaiterInit /\ WsInit /\ ServiceInit /\ RateInit

SpecService == InitService /\ [][ServiceNext]_vars

\* the engine's RateLimiter alone
InitRate == EngineInit /\ SequentialInit /\ BroadcasterInit /\ ManagerInit /\ HandlerInit /\ RegistryInit /\ WaiterInit /\ WsInit /\ ServiceInit /\ RateInit

SpecRate == InitRate /\ [][RateNext]_vars

\* the remote side answers every request (the session has a total timeout)
\* and the pages are parsed and fetched; a new call need not be made
SpecServiceLive ==
    /\ InitService /\ [][ServiceNext]_vars
    /\ WF_vars(\E input \in RemoteInputs, j \in JitterFactors : Attempt(input, j))
    /\ WF_vars(\E parsed, n, a \in BOOLEAN, j \in JitterFactors : HandlePage(parsed, n, a, j))
    /\ WF_vars(\E ok \in BOOLEAN : FetchPage(ok))

\* one execution and a caller of wait_for_completion
SpecWait == InitEngine /\ [][WaitNext]_vars

\* the limiter alone: concurrent callers, each making one call
InitLimiter == EngineInit /\ LimiterInit /\ BroadcasterInit /\ ManagerInit /\ HandlerInit /\ RegistryInit /\ WaiterInit /\ WsInit /\ ServiceInit /\ RateInit

SpecLimiter == InitLimiter /\ [][LimiterNext]_vars

\* the limiter alone, one sequential caller
InitSequential == EngineInit /\ SequentialInit /\ BroadcasterInit /\ ManagerInit /\ HandlerInit /\ RegistryInit /\ WaiterInit /\ WsInit /\ ServiceInit /\ RateInit

SpecSequential == InitSequential /\ [][SequentialNext]_vars

\* the progress broadcaster alone: one task, its subscribers and the
\* websocket connections coming and going while it broadcasts
InitBroadcaster == EngineInit /\ SequentialInit /\ BroadcasterInit /\ ManagerInit /\ HandlerInit /\ RegistryInit /\ WaiterInit /\ WsInit /\ ServiceInit /\ RateInit

SpecBroadcaster == InitBroadcaster /\ [][BroadcasterNext]_vars

\* the progress broadcaster alone: the tasks broadcasting concurrently
InitFanOut == EngineInit /\ SequentialInit /\ FanOutInit /\ ManagerInit /\ HandlerInit /\ RegistryInit /\ WaiterInit /\ WsInit /\ ServiceInit /\ RateInit

SpecFanOut == InitFanOut /\ [][FanOutNext]_vars

\* subscribe and unsubscribe of the broadcaster and of the websocket manager
InitIndex == EngineInit /\ SequentialInit /\ IndexInit /\ HandlerInit /\ RegistryInit /\ WaiterInit /\ WsInit /\ ServiceInit /\ RateInit

SpecIndex == InitIndex /\ [][IndexNext]_vars

\* the error handler alone: classify_error and calculate_retry_delay applied
\* to each response and exception
InitClassifier == EngineInit /\ SequentialInit /\ BroadcasterInit /\ ManagerInit /\ ClassifierInit /\ RegistryInit /\ WaiterInit /\ WsInit /\ ServiceInit /\ RateInit

SpecClassifier == InitClassifier /\ [][ClassifierNext]_vars

\* the retry decisions of CanvasErrorHandler for one classified error
RetryNext ==
    \/ ClassifyError
    \/ \E a \in 1..MaxAttempt : ShouldRetry(a)

InitRetry == EngineInit /\ SequentialInit /\ BroadcasterInit /\ ManagerInit /\ ClassifierInit /\ RegistryInit /\ WaiterInit /\ WsInit /\ ServiceInit /\ RateInit

SpecRetry == InitRetry /\ [][RetryNext]_vars

\* one caller of wait_for_availability while the clock runs
InitWaiter == EngineInit /\ SequentialInit /\ BroadcasterInit /\ ManagerInit /\ HandlerInit /\ RegistryInit /\ WaiterInit /\ WsInit /\ ServiceInit /\ RateInit

SpecWaiter == InitWaiter /\ [][WaiterNext]_vars

\* reset_user_limits between the calls of a client
InitReset == EngineInit /\ SequentialInit /\ BroadcasterInit /\ ManagerInit /\ HandlerInit /\ RegistryInit /\ WaiterInit /\ WsInit /\ ServiceInit /\ RateInit

SpecReset == InitReset /\ [][ResetNext]_vars

\* the websocket manager while progress updates are fanned out
InitWs == EngineInit /\ SequentialInit /\ BroadcasterInit /\ ManagerInit /\ HandlerInit /\ RegistryInit /\ WaiterInit /\ WsInit /\ ServiceInit /\ RateInit

SpecWs == InitWs /\ [][WsNext]_vars

\* the task registry under any sequence of register_task calls
InitRegistry == EngineInit /\ SequentialInit /\ BroadcasterInit /\ ManagerInit /\ HandlerInit /\ RegistryInit /\ WaiterInit /\ WsInit /\ ServiceInit /\ RateInit

SpecRegistry == InitRegistry /\ [][RegistryNext]_vars

\* a callback whose delivery may never complete
SlowSubscriber == "s1"

\* the event loop resumes a coroutine whose await has completed: a send to a
\* websocket ends, and every callback but the slow one returns
SpecBroadcasterLive ==
    /\ InitBroadcaster
    /\ [][BroadcasterNext]_vars
    /\ \A t \in FocusTasks :
          /\ WF_vars(bp[t].cur # SlowSubscriber /\ CallbackReturns(t))
          /\ WF_vars(\E w \in WebSockets : SendEnds(t, w, TRUE))

\* ------------------------------------------------------------------------
\* Properties
\* ------------------------------------------------------------------------

\* C1: for every principal and both windows, the number of calls admitted
\* (allowed, not by failing open) with a time inside any rolling window
\* never exceeds the per-principal limit of that window, whatever the
\* interleaving of the concurrent callers.
C1_NoOverAdmission ==
    \A p \in Principals, t \in 0..MaxTime :
        /\ AdmittedIn(p, t, MinuteWindow) <= RequestsPerMinute
        /\ AdmittedIn(p, t, HourWindow) <= RequestsPerHour

StatusEdges ==
    {<<"pending", "running">>, <<"running", "completed">>,
     <<"running", "failed">>, <<"running", "cancelled">>}

\* C2: the status of an Execution changes only along
\* PENDING -> RUNNING -> {COMPLETED, FAILED, CANCELLED}, and a status of
\* COMPLETED, FAILED or CANCELLED never changes again.
C2_StatusStateMachine ==
    \A id \in TaskIds :
        \A i \in 1..(Len(hist[id].trail) - 1) :
            <<hist[id].trail[i], hist[id].trail[i + 1]>> \in StatusEdges

\* C3: once cancel_execution has succeeded for an Execution whose main body
\* had not started, the status of the Execution is CANCELLED from then on
\* (so it ends CANCELLED and is never COMPLETED afterwards).
C3_CancelledBeforeBodyStaysCancelled ==
    \A id \in TaskIds :
        hist[id].cancelledBeforeBody => executions[id].status = "cancelled"

\* an Execution cancelled while its routine was in the pre-execution hook
\* has finished, cleaned up, without the main body
C3_Witness ==
    \E id \in TaskIds :
        /\ hist[id].cancelledBeforeBody
        /\ bg[id].pc = "done"
        /\ hist[id].cleanups = 1
        /\ "pre_execute" \in hist[id].invoked
        /\ "execute" \notin hist[id].invoked
        /\ executions[id].status = "cancelled"

\* C4: when the main body has run into the timeout and no cancel was
\* requested, the Execution is never CANCELLED, and from the handling of
\* the timeout on it is FAILED with the timeout error.
C4_TimeoutFails ==
    \A id \in TaskIds :
        (hist[id].timedOut /\ ~hist[id].cancelRequested) =>
            /\ executions[id].status # "cancelled"
            /\ bg[id].pc \in {"error_notify", "on_error", "done"} =>
                   /\ executions[id].status = "failed"
                   /\ executions[id].error = "timeout"

C4_Witness ==
    \E id \in TaskIds :
        /\ hist[id].timedOut
        /\ ~hist[id].cancelRequested
        /\ bg[id].pc = "done"
        /\ executions[id].status = "failed"
        /\ executions[id].error = "timeout"

\* C5: an Execution that the Engine has finalized through the success path
\* (task found, configuration valid, pre-hook true, body returned in time,
\* post-hook returned) without any cancel request has status COMPLETED.
C5_FinalizedIsCompleted ==
    \A id \in TaskIds :
        (hist[id].finalized /\ ~hist[id].cancelRequested) =>
            executions[id].status = "completed"

\* C6: a cancel_execution for an id that is unknown or whose Execution is
\* already COMPLETED, FAILED or CANCELLED returns false.
C6_CancelOfTerminalReturnsFalse ==
    (lastCancel.id # "none" /\ lastCancel.pre \in Terminal \cup {"none"}) =>
        lastCancel.ret = FALSE

\* C7: once the routine of a submitted Execution has finished, whatever the
\* exit path, its resources were released exactly once and no entry for its
\* id is left in _progress_callbacks, _cancellation_tokens, _execution_tasks.
C7_ResourcesReleasedOnce ==
    \A id \in TaskIds :
        bg[id].pc = "done" =>
            /\ hist[id].cleanups = 1
            /\ id \notin progress_callbacks
            /\ id \notin cancellation_tokens
            /\ id \notin execution_tasks

\* C8: at the moment its routine completes, an Execution in a terminal
\* state is not evicted: get_execution_status still returns its status.
C8_RetainedAtCompletion ==
    [][\A id \in TaskIds :
          (bg[id].pc # "done" /\ bg'[id].pc = "done"
             /\ executions'[id].status \in Terminal) =>
              get_execution_status(id)' = executions'[id].status]_vars

\* C9: a status returned with allowed = true outside the fail-open path was
\* given while each of the four windows (principal minute, principal hour,
\* global minute, global hour) held, at the time it was checked, a count
\* with count + applied weight <= limit; equivalently, if one of the four
\* lacks that capacity the status returned has allowed = false.
C9_AllowedOnlyWithCapacity ==
    (result.valid /\ ~result.fail_open /\ result.status.allowed) =>
        /\ result.seen[1] + result.weight <= RequestsPerMinute
        /\ result.seen[2] + result.weight <= RequestsPerHour
        /\ result.seen[3] + result.weight <= GlobalMinuteLimit
        /\ result.seen[4] + result.weight <= GlobalHourLimit

\* a call admitted with the global minute window filled to its limit by it
C9_Witness ==
    /\ result.valid /\ ~result.fail_open /\ result.status.allowed
    /\ result.seen[3] + result.weight = GlobalMinuteLimit

\* C11: a check_rate_limit call in which a backing-store operation failed
\* (the first, the recording or the global pipeline) returns a status, and
\* that status has allowed = true and no retry_after, whatever the counts
\* the call had seen before the failure.
C11_FailsOpen ==
    (result.valid /\ result.fail_open) =>
        /\ result.status.allowed
        /\ result.status.retry_after = None

\* the store fails in a call whose principal had no capacity left
C11_Witness ==
    /\ result.valid /\ result.fail_open /\ result.status.allowed
    /\ result.seen[1] + result.weight > RequestsPerMinute

StrictlyIncreasing(q) == \A i \in 1..(Len(q) - 1) : q[i] < q[i + 1]

\* C12: within one task the updates keep the order in which the task
\* generated them, whatever the other task does meanwhile: every callback is
\* called with them in increasing order, the history of the broadcaster
\* holds them in increasing order, and the list of the Execution holds all
\* of them in the order generated.
C12_ProgressInOrder ==
    \A t \in HubTasks :
        /\ \A s \in Subscribers : StrictlyIncreasing(received[s][t])
        /\ t \in DOMAIN progress_history => StrictlyIncreasing(progress_history[t])
        /\ progress_updates[t] = [i \in 1..bp[t].n |-> i]

\* a callback has been called with all the updates of one task while the
\* other task was in the middle of a broadcast of its own
C12_Witness ==
    \E s \in Subscribers :
        /\ received[s]["t1"] = [i \in 1..MaxUpdates |-> i]
        /\ progress_history["t1"] = [i \in 1..MaxUpdates |-> i]
        /\ received[s]["t2"] # <<>>
        /\ bp["t2"].pc = "subscribers"

\* C13: a broadcast_progress call in which the delivery to a subscriber
\* raised does not raise itself and has called every other subscriber of
\* its snapshot, whatever subscribe_to_task, unsubscribe_from_task and
\* clear_task_history did while a delivery was suspended.
C13_FailureIsolated ==
    (broadcastDone.valid /\ broadcastDone.failed) =>
        (~broadcastDone.raised /\ broadcastDone.skipped = {})

\* C14: a subscriber of the snapshot of a broadcast, other than the slow
\* one, is eventually called with the update, even when the delivery to the
\* slow subscriber never completes.
C14_SlowSubscriberDoesNotBlock ==
    \A t \in FocusTasks : \A s \in Subscribers \ {SlowSubscriber} :
        (bp[t].pc = "subscribers" /\ s \in bp[t].todo) ~> (s \notin bp[t].todo)

\* C15: subscribe and unsubscribe are idempotent, for the broadcaster and
\* for the websocket manager: applied a second time to the same pair they
\* leave the index exactly as the first application left it, and after an
\* unsubscribe of the only subscriber of a task the index has no entry for
\* that task.
C15_SubscribeIdempotent ==
    /\ lastIndexOp.again => lastIndexOp.same
    /\ (lastIndexOp.op = "unsubscribe" /\ lastIndexOp.alone) =>
           /\ lastIndexOp.obj = "broadcaster" => lastIndexOp.task \notin DOMAIN task_subscribers
           /\ lastIndexOp.obj = "manager" => lastIndexOp.task \notin DOMAIN task_subscriptions
    /\ \A t \in HubTasks :
          /\ \A s \in Subscribers :
                LET x == task_subscribers
                IN /\ subscribe_to_task(subscribe_to_task(x, t, s), t, s)
                        = subscribe_to_task(x, t, s)
                   /\ unsubscribe_from_task(unsubscribe_from_task(x, t, s), t, s)
                        = unsubscribe_from_task(x, t, s)
          /\ \A k \in Connections :
                LET y == task_subscriptions
                IN /\ ws_subscribe_to_task(ws_subscribe_to_task(y, k, t), k, t)
                        = ws_subscribe_to_task(y, k, t)
                   /\ ws_unsubscribe_from_task(ws_unsubscribe_from_task(y, k, t), k, t)
                        = ws_unsubscribe_from_task(y, k, t)

\* the only subscriber of a task has been unsubscribed twice in a row
C15_Witness ==
    /\ lastIndexOp.op = "unsubscribe" /\ lastIndexOp.again /\ lastIndexOp.alone
    /\ lastIndexOp.obj = "manager"
    /\ lastIndexOp.task \notin DOMAIN task_subscriptions
    /\ DOMAIN task_subscriptions # {}

\* C16: no key of the subscriber index of the broadcaster maps to an empty
\* set, also after the last subscriber was removed for a failed delivery.
C16_NoEmptySubscriberSet ==
    \A t \in DOMAIN task_subscribers : task_subscribers[t] # {}

\* C10: for weight-1 calls made one after the other, a call of a principal
\* that already has RequestsPerMinute admitted calls inside the minute
\* window is denied with retry_after > 0, and a call with fewer admitted
\* calls inside the minute window (in particular one made after the window
\* of the admitted calls has passed) is allowed, the hour limit permitting.
C10_SequentialWindow ==
    result.valid =>
        /\ result.prior[1] >= RequestsPerMinute =>
               (~result.status.allowed /\ result.status.retry_after > 0)
        /\ (result.prior[1] < RequestsPerMinute /\ result.prior[2] < RequestsPerHour) =>
               result.status.allowed

\* C17: a response with status 503 is classified, whatever its body, as
\* retryable with strategy exponential backoff and max_retries >= 3; a
\* response with status 404 is classified, whatever its body, as not
\* retryable at any attempt.
C17_StatusDecidesRetry ==
    (canvasError.valid /\ errInput.kind = "response") =>
        /\ errInput.status = 503 =>
               /\ should_retry(canvasError, 1)
               /\ canvasError.retry_strategy = "exponential_backoff"
               /\ canvasError.max_retries >= 3
        /\ errInput.status = 404 =>
               \A a \in 1..MaxAttempt : ~should_retry(canvasError, a)

\* C18: a timeout exception is classified, whatever its message, as
\* NETWORK_TIMEOUT, and should_retry is true for attempt 1.
C18_TimeoutIsRetryable ==
    (canvasError.valid /\ errInput.kind = "exception"
        /\ IsInstance(errInput.cls, "asyncio.TimeoutError")) =>
        /\ canvasError.error_type = "network_timeout"
        /\ should_retry(canvasError, 1)

\* a timeout whose message holds the patterns of other error types
C18_Witness ==
    /\ canvasError.valid /\ errInput.kind = "exception"
    /\ errInput.cls = "aiohttp.ServerTimeoutError"
    /\ {"connection", "404"} \subseteq errInput.message
    /\ canvasError.error_type = "network_timeout"

\* C19: the delay calculate_retry_delay returns never exceeds the max delay
\* of the retry policy of the error, for every error, attempt, Retry-After
\* value and jitter.
C19_DelayAtMostMax ==
    lastDelay.valid => lastDelay.delay <= max_delay_of(canvasError) * Unit

\* the delay before the cut was larger than the max delay
C19_Witness ==
    /\ lastDelay.valid
    /\ raw_delay(canvasError, lastDelay.attempt) * lastDelay.jitter
           > max_delay_of(canvasError) * Unit
    /\ lastDelay.delay = max_delay_of(canvasError) * Unit

\* C20: for a linear or exponential strategy the delay of a later attempt
\* is never smaller than the delay of an earlier attempt for the same error,
\* whatever the two jitter draws.
C20_DelayNonDecreasing ==
    (prevDelay.valid /\ lastDelay.valid
        /\ canvasError.retry_strategy \in {"linear_backoff", "exponential_backoff"}) =>
        /\ prevDelay.attempt < lastDelay.attempt => prevDelay.delay <= lastDelay.delay
        /\ lastDelay.attempt < prevDelay.attempt => lastDelay.delay <= prevDelay.delay

\* C21: for every classified error and attempt, should_retry returns true
\* exactly when the attempt is at most the error's max_retries and the
\* error's strategy is not NO_RETRY.
C21_ShouldRetryExactly ==
    retryDecision.valid =>
        (retryDecision.retry <=>
            (/\ retryDecision.attempt <= canvasError.max_retries
             /\ canvasError.retry_strategy # "no_retry"))

\* the last attempt the policy allows is retried
C21_Witness ==
    /\ retryDecision.valid /\ retryDecision.retry
    /\ retryDecision.attempt = canvasError.max_retries

\* C22: register_task for a name already registered succeeds only if the
\* new version is greater than the version registered under that name, and
\* otherwise returns False and changes nothing; so the version registered
\* under a name never decreases.
C22_VersionNeverDecreases ==
    [][\A n \in DOMAIN task_metadata :
          /\ n \in DOMAIN task_metadata'
          /\ ~StrGreater(task_metadata[n].version, task_metadata'[n].version)
          /\ task_metadata'[n] # task_metadata[n] =>
                 StrGreater(task_metadata'[n].version, task_metadata[n].version)]_vars

C24_PollsAtFixedInterval ==
    /\ \A i, j \in 1..Len(waiter.sleeps) : waiter.sleeps[i] = waiter.sleeps[j]
    /\ \A i \in 1..Len(waiter.polls) : waiter.polls[i] < waiter.max_wait
    /\ waiter.pc = "returned" => (waiter.ret <=> waiter.admitted)
    /\ waiter.admitted => waiter.pc = "returned"

\* C25: immediately after reset_user_limits(P) has cleared P's counters,
\* P's minute and hour usage counts are 0 and the counters of every other
\* principal are as they were.
C25_ResetClearsOnlyThatUser ==
    (lastReset.valid /\ lastReset.ok) =>
        /\ lastReset.after = <<0, 0>>
        /\ lastReset.others_unchanged

\* a reset of a principal that had used both windows, while the other
\* principal has usage of its own
C25_Witness ==
    /\ lastReset.valid /\ lastReset.ok
    /\ lastReset.before[1] > 0 /\ lastReset.before[2] > 0
    /\ \E q \in Principals \ {lastReset.user} : user_usage(store, q)[1] > 0

\* C26: each progress update is sent to each connection at most once, also
\* to a connection that is subscribed to the update's task and registered
\* under the update's user.
C26_AtMostOnce ==
    \A k \in Connections : \A n \in 1..MaxBroadcasts : delivered[k][n] <= 1

\* C27: a cancellation never interrupts the main body: once the body has
\* started, the routine ends only after the body has returned, raised or
\* timed out.
C27_BodyNotInterrupted ==
    \A id \in TaskIds :
        ("execute" \in hist[id].invoked /\ bg[id].pc = "done") => bg[id].outcome # "none"

\* C28: when the pre-hook returns false, the main body and the post-hook
\* are never run and the status of the execution never becomes FAILED.
C28_PreHookFalseAbortsCleanly ==
    \A id \in TaskIds :
        hist[id].preRejected =>
            /\ hist[id].invoked \cap {"execute", "post_execute"} = {}
            /\ \A i \in 1..Len(hist[id].trail) : hist[id].trail[i] # "failed"

\* C29: an execution whose task type is not in the registry has none of
\* validate_config, pre_execute, execute, post_execute invoked, and once the
\* engine has found the type missing it ends FAILED with that error.
C29_UnknownTypeFails ==
    \A id \in TaskIds :
        (bg[id].pc # "none" /\ ~Registered(id)) =>
            /\ hist[id].invoked \cap
                   {"validate_config", "pre_execute", "execute", "post_execute"} = {}
            /\ (bg[id].pc = "done" /\ executions[id].error = "not_found") =>
                   executions[id].status = "failed"

\* C30: an execution whose configuration validate_config reported invalid
\* has none of pre_execute, execute, post_execute invoked (its hooks make
\* the remote calls) and ends FAILED.
C30_InvalidConfigFails ==
    \A id \in TaskIds :
        executions[id].error = "validation" =>
            /\ hist[id].invoked \cap {"pre_execute", "execute", "post_execute"} = {}
            /\ bg[id].pc = "done" => executions[id].status = "failed"

\* C31: in every execution's progress history, of two updates of the same
\* stage the later one's percentage is at least the earlier one's
C31_PercentageNonDecreasing ==
    \A id \in TaskIds :
        LET p == executions[id].progress
        IN \A i, j \in DOMAIN p :
               (i < j /\ p[i][1] = p[j][1]) => p[i][2] <= p[j][2]

\* C32: an execution that failed (with a typed task error or with another
\* exception, wrapped) ends FAILED with a failed result carrying that error;
\* its on_error hook is invoked when the task class is known, and whether the
\* hook returns or raises the error is kept and the cleanup has run.
C32_FailureKeepsError ==
    \A id \in TaskIds :
        (bg[id].pc = "done" /\ executions[id].error # "none") =>
            /\ executions[id].status = "failed"
            /\ executions[id].result_status = "failed"
            /\ hist[id].cleanups = 1
            /\ id \notin active_executions

\* a 4xx response other than 429 whose body holds no refining keyword
ClientErrorResponse(input) ==
    /\ input.kind = "response"
    /\ input.status \in {400, 401, 403, 404, 409, 422}
    /\ input.body = {}

\* C33: once an attempt of _make_request is answered with a 4xx status other
\* than 429 and a body without refining keyword, the call has raised to its
\* caller with no retry and no backoff delay after that response; when it
\* is the first answer, exactly one remote attempt was made.
C33_ClientErrorNotRetried ==
    \A i \in DOMAIN req.seen :
        ClientErrorResponse(req.seen[i].input) =>
            /\ ~req.seen[i].retry /\ ~req.seen[i].slept
            /\ i = Len(req.seen)
            /\ req.pc = "done" /\ req.outcome = "raised"
            /\ i = 1 => (req.attempt = 1 /\ req.remote_calls = 1)

C33_Witness ==
    /\ req.max_retries = 3 /\ req.pc = "done" /\ req.outcome = "raised"
    /\ Len(req.seen) = 1 /\ ClientErrorResponse(req.seen[1].input)
    /\ req.seen[1].input.status = 409
    /\ req.remote_calls = 1

\* C34: in the engine's RateLimiter the recorded calls younger than the
\* minute never number more than calls_per_minute and those younger than the
\* hour never more than calls_per_hour; acquire returns true exactly when it
\* records the call, and a denied acquire adds nothing to either list.
C34_EngineLimiterBounded ==
    /\ Len(younger(minute_calls, engine_now, EngineMinute)) <= CallsPerMinute
    /\ Len(younger(hour_calls, engine_now, EngineHour)) <= CallsPerHour
    /\ (lastAcquire.valid /\ lastAcquire.at = engine_now) =>
           /\ lastAcquire.ret =>
                  /\ minute_calls = Append(lastAcquire.minute_before, lastAcquire.at)
                  /\ hour_calls = Append(lastAcquire.hour_before, lastAcquire.at)
           /\ ~lastAcquire.ret =>
                  /\ minute_calls = lastAcquire.minute_before
                  /\ hour_calls = lastAcquire.hour_before

\* a call denied by the hour limit while the minute list has room
C34_Witness ==
    /\ lastAcquire.valid /\ ~lastAcquire.ret
    /\ Len(lastAcquire.minute_before) < CallsPerMinute
    /\ Len(hour_calls) = CallsPerHour

\* the entries a check_rate_limit call by caller c at time t put into a key
RecordedBy(key, c, t) == {m \in store[key] : m[1] = t /\ m[2] = c}

\* the two keys of a principal and the two global keys
FourKeys(p) == {<<p, "minute">>, <<p, "hour">>, <<"global", "minute">>, <<"global", "hour">>}

\* C35: a check_rate_limit call that returned allowed = false has recorded
\* nothing: none of the four sets holds an entry of that call.
C35_DeniedRecordsNothing ==
    (result.valid /\ ~result.fail_open /\ ~result.status.allowed) =>
        \A key \in FourKeys(result.user) :
            RecordedBy(key, result.caller, result.current_time) = {}

\* C36: when check_rate_limit has returned allowed = true for a request of
\* applied weight w, each of the four sets holds w entries of that call
\* (looked at before time moves on, so that none has expired).
C36_AdmittedConsumesWeight ==
    (result.valid /\ ~result.fail_open /\ result.status.allowed
        /\ result.current_time = now) =>
        \A key \in FourKeys(result.user) :
            Cardinality(RecordedBy(key, result.caller, result.current_time)) = result.weight

\* C37: the remote calls _make_request has made (attempts of the loop and
\* pages fetched) never number more than the admissions the limiter granted
\* to the call.
C37_EveryAttemptAdmitted == req.remote_calls <= req.admissions

EndsProperly ==
    (req.pc = "done" /\ req.admissions > 0) =>
        /\ req.outcome \in {"returned", "raised"}
        /\ req.outcome = "raised" =>
               \/ req.attempt = req.max_retries
               \/ req.last_error.valid /\ ~should_retry(req.last_error, req.attempt)

C39_WaitOnlyObserves ==
    \A id \in TaskIds :
        "wait_timeout" \in hist[id].invoked =>
            /\ ~bg[id].must_cancel
            /\ bg[id].pc = "done" => executions[id].status \in Terminal

\* C40: every connection id held in a task subscription set or in a user
\* subscription set of the websocket manager is an active connection.
C40_SubscribersAreActive ==
    /\ \A t \in DOMAIN task_subscriptions : task_subscriptions[t] \subseteq active_connections
    /\ \A u \in DOMAIN user_subscriptions : user_subscriptions[u] \subseteq active_connections

====
